---- MODULE Spec2Model ----
(***************************************************************************)
(* tweet-vault: the Convex ingestion-and-enrichment pipeline.              *)
(*                                                                         *)
(* The store (tables tweets, links, sync_state, twitter_likes), the        *)
(* Convex actions syncTweetVault / processTweetVault with their shared     *)
(* runProcessingPipeline, the mutations they call, the embedding helper    *)
(* embedTexts with its retry loop, and the command-line import that        *)
(* drives the same backend (processTweets, extractLinksFromTweets,         *)
(* fetchAllLinkMetadata, processAllEmbeddings, recordSync).                *)
(*                                                                         *)
(* A Convex mutation is one transaction, so each ctx.runMutation is one    *)
(* atomic step; an action (and the CLI) is a sequence of such steps and    *)
(* is modelled with a program counter.                                     *)
(***************************************************************************)
EXTENDS Integers, Sequences, FiniteSets, TLC

VARIABLES
    tweets,         \* table "tweets", in creation order
    links,          \* table "links", in creation order
    sync_state,     \* table "sync_state", in creation order
    twitter_likes,  \* table "twitter_likes", in creation order
    run,            \* locals of the running Convex action (syncTweetVault / processTweetVault)
    cli,            \* locals of the running command-line import
    call,           \* locals of the running embedTexts call
    hist,           \* observation of the current top-level run (what it wrote, in order)
    sb_tweets,      \* Postgres table tweets of the Supabase backend
    sb_links,       \* Postgres table links of the Supabase backend
    writer,         \* locals of the runs that upsert into the Supabase backend
    pool,           \* the in-flight tasks of a concurrent stage (metadata fetch, embedding)
    fn              \* a helper function evaluated on its own: its argument and its result

\* The state of the Supabase-backed variant of the pipeline and of the
\* stand-alone evaluations.
sbVars == <<sb_tweets, sb_links, writer, pool, fn>>

vars == <<tweets, links, sync_state, twitter_likes, run, cli, call, hist, sbVars>>

\* JavaScript's undefined / a missing document field.
NoValue == "undefined"

Min(a, b) == IF a <= b THEN a ELSE b
Max(a, b) == IF a >= b THEN a ELSE b

\* seq.slice(0, n) / query.take(n)
Take(seq, n) == SubSeq(seq, 1, Min(n, Len(seq)))

\* seq.slice(from0, to0) with 0-based, end-exclusive indices
Slice(seq, from0, to0) == SubSeq(seq, from0 + 1, Min(to0, Len(seq)))

\* The indices of seq whose element satisfies Test, in order.
SelectIdx(seq, Test(_)) ==
    LET F[k \in 0..Len(seq)] ==
            IF k = 0 THEN << >>
            ELSE IF Test(seq[k]) THEN Append(F[k - 1], k) ELSE F[k - 1]
    IN  F[Len(seq)]

Range(seq) == {seq[k] : k \in 1..Len(seq)}

-----------------------------------------------------------------------------
(***************************************************************************)
(* embedTexts: one POST per attempt, retry with exponential backoff.       *)
(***************************************************************************)

maxAttempts == 5
BackoffBaseMs == 500
BackoffCapMs == 8000
JitterRange == 250

\* HTTP statuses the embedding service is taken to answer with.
Statuses == {200, 400, 401, 429, 500, 501, 502, 503, 504}

\* response.ok
ResponseOk(status) == status \in 200..299

Any5xxRetryable(status) == status = 429 \/ status \in 500..599

\* const retryable = [429, 500, 502, 503, 504].includes(response.status)
retryable(status) == status \in {429, 500, 502, 503, 504}

FlatBackoffMs(attempt) == BackoffBaseMs

\* const backoffMs = Math.min(500 * 2 ** (attempt - 1), 8000)
backoffMs(attempt) == Min(BackoffBaseMs * 2 ^ (attempt - 1), BackoffCapMs)

\* Math.floor(Math.random() * 250)
Jitters == 0..(JitterRange - 1)

CallIdle ==
    [pc |-> "idle", attempt |-> 0, requests |-> 0, sleeps |-> 0,
     lastDelay |-> 0, lastStatus |-> 0, n429 |-> 0]

\* A loop that always has an attempt left.
AlwaysAttemptsLeft(attempt) == FALSE

\* attempt >= maxAttempts  of  if (!retryable || attempt >= maxAttempts) throw error
outOfAttempts(attempt) == attempt >= maxAttempts

\* Entry of embedTexts with a non-empty texts array and an API key.
CallStart == [CallIdle EXCEPT !.pc = "request"]

\* One pass of the while loop up to the decision: the POST, then return on
\* response.ok, throw when not retryable or out of attempts, else back off.
EmbedRequest(status) ==
    /\ call.pc = "request"
    /\ call.attempt < maxAttempts
    /\ LET attempt == call.attempt + 1 IN
       call' = [call EXCEPT
                  !.attempt = attempt,
                  !.requests = @ + 1,
                  !.lastStatus = status,
                  !.n429 = IF status = 429 THEN @ + 1 ELSE @,
                  !.pc = IF ResponseOk(status) THEN "returned"
                         ELSE IF ~retryable(status) \/ outOfAttempts(attempt)
                              THEN "threw"
                              ELSE "backoff"]
    /\ UNCHANGED <<sbVars, tweets, links, sync_state, twitter_likes, run, cli, hist>>

\* The fetch itself rejects (DNS, connection reset): nothing catches it.
EmbedFetchRejects ==
    /\ call.pc = "request"
    /\ call.attempt < maxAttempts
    /\ call' = [call EXCEPT !.attempt = @ + 1, !.requests = @ + 1,
                            !.lastStatus = 0, !.pc = "threw"]
    /\ UNCHANGED <<sbVars, tweets, links, sync_state, twitter_likes, run, cli, hist>>

\* await new Promise((resolve) => setTimeout(resolve, backoffMs + jitter))
EmbedBackoff(jitter) ==
    /\ call.pc = "backoff"
    /\ call' = [call EXCEPT !.sleeps = @ + 1,
                            !.lastDelay = backoffMs(call.attempt) + jitter,
                            !.pc = "request"]
    /\ UNCHANGED <<sbVars, tweets, links, sync_state, twitter_likes, run, cli, hist>>

\* embedTexts called on its own: `if (!apiKey) throw`, `if (texts.length === 0)
\* return []`, else into the retry loop.
EmbedCall(apiKey, texts) ==
    /\ call.pc = "idle"
    /\ run.pc = "idle"
    /\ cli.pc = "idle"
    /\ call' = IF ~apiKey THEN [CallIdle EXCEPT !.pc = "threw"]
               ELSE IF texts = 0 THEN [CallIdle EXCEPT !.pc = "returned"]
               ELSE CallStart
    /\ UNCHANGED <<sbVars, tweets, links, sync_state, twitter_likes, run, cli, hist>>

\* The caller of a stand-alone call has its answer.
EmbedSettles ==
    /\ call.pc \in {"returned", "threw"}
    /\ run.pc = "idle"
    /\ cli.pc = "idle"
    /\ call' = CallIdle
    /\ UNCHANGED <<sbVars, tweets, links, sync_state, twitter_likes, run, cli, hist>>

-----------------------------------------------------------------------------
(***************************************************************************)
(* URLs, post text and the fetched bookmark window.                        *)
(*                                                                         *)
(* A URL is its scheme, its host as a list of lower-case labels and its    *)
(* path; a host of no labels is a string `new URL` cannot parse.  Post     *)
(* text is the list of its whitespace-separated tokens; a token without    *)
(* a scheme is a plain word.                                               *)
(***************************************************************************)

Url(host, path) == [scheme |-> "https", host |-> host, path |-> path]
Word(w) == [scheme |-> "", host |-> << >>, path |-> w]

\* An absent (undefined) URL field, and an absent domain field.
NoUrl == Word("")
NoDomain == << >>

UrlArticle == Url(<<"www", "ex", "am">>, "a")
UrlStatus == Url(<<"www", "x", "com">>, "s")

LINK_SKIP_DOMAINS ==
    { <<"t", "co">>, <<"pic", "twitter", "com">>, <<"twitter", "com">>,
      <<"x", "com">>, <<"pbs", "twimg", "com">> }

\* The hostname as it stands.
Hostname(url) == url.host

\* new URL(url).hostname.replace(/^www\./, ""), undefined when the URL does not parse
extractDomain(url) ==
    IF url.host = << >> THEN NoDomain
    ELSE IF Head(url.host) = "www" /\ Len(url.host) > 1 THEN Tail(url.host)
    ELSE url.host

\* contentNormalized.match(/https?:\/\/[^\s]+/g), each match through trimUrl
ScanUrls(content) == SelectSeq(content, LAMBDA tok : tok.scheme \in {"http", "https"})

\* Identifiers of bookmarked posts, and the text each one carries.
Ids == {"100", "101", "102"}

TextOf(id) ==
    CASE id = "100" -> << Word("gm") >>
      [] id = "101" -> << Word("see"), UrlArticle >>
      [] OTHER      -> << UrlArticle, UrlStatus, UrlArticle >>

\* One tweet of the Bird client's result.  username is undefined for the
\* item the loop drops with `if (!tweet.id || !username || !content) continue`.
BirdTweet(id, username) == [id |-> id, username |-> username, text |-> TextOf(id)]

Items == {BirdTweet(id, "alice") : id \in Ids} \cup {BirdTweet("102", NoValue)}

MaxWindow == 2

Windows == UNION {[1..n -> Items] : n \in 0..MaxWindow}

-----------------------------------------------------------------------------
(***************************************************************************)
(* The store: documents and the mutations / queries on them.               *)
(***************************************************************************)

\* The document ctx.db.insert("tweets", payload) creates.
TweetDoc(t) ==
    [tweet_id |-> t.tweet_id, author_username |-> t.author_username,
     content |-> t.content, raw_data |-> t.raw_data,
     processed_at |-> t.processed_at,
     links_extracted_at |-> NoValue, embedding |-> NoValue]

\* ctx.db.patch(existing._id, payload): payload fields replace the stored
\* ones (an undefined payload field removes the stored field); fields the
\* payload does not name are kept.
PatchTweet(doc, t) ==
    [doc EXCEPT !.author_username = t.author_username,
                !.content = t.content,
                !.raw_data = t.raw_data,
                !.processed_at = t.processed_at]

\* .withIndex("by_tweet_id", q => q.eq("tweet_id", id)).unique(): 0 when absent
FindTweet(table, id) ==
    LET hits == {k \in 1..Len(table) : table[k].tweet_id = id}
    IN  IF hits = {} THEN 0 ELSE CHOOSE k \in hits : \A m \in hits : k <= m

NeverFindTweet(table, id) == 0

\* The lookup upsertTweets makes for each tweet of its argument.
ExistingTweet(table, id) == FindTweet(table, id)

\* mutation upsertTweets: the handler's loop over args.tweets.
RECURSIVE UpsertTweetsLoop(_, _, _, _, _)
UpsertTweetsLoop(args, table, seen, added, updated) ==
    IF args = << >>
    THEN [table |-> table, added |-> added, updated |-> updated]
    ELSE LET t == Head(args)
             k == ExistingTweet(table, t.tweet_id)
         IN  IF t.tweet_id \in seen
             THEN UpsertTweetsLoop(Tail(args), table, seen, added, updated)
             ELSE IF k # 0
             THEN UpsertTweetsLoop(Tail(args),
                                   [table EXCEPT ![k] = PatchTweet(@, t)],
                                   seen \cup {t.tweet_id},
                                   added, Append(updated, t.tweet_id))
             ELSE UpsertTweetsLoop(Tail(args),
                                   Append(table, TweetDoc(t)),
                                   seen \cup {t.tweet_id},
                                   Append(added, t.tweet_id), updated)

upsertTweets(table, args) == UpsertTweetsLoop(args, table, {}, << >>, << >>)

\* The document ctx.db.insert("links", payload) creates.
LinkDoc(l) ==
    [tweet_id |-> l.tweet_id, url |-> l.url, expanded_url |-> l.expanded_url,
     domain |-> l.domain, title |-> NoValue, description |-> NoValue,
     content_type |-> NoValue, fetched_at |-> NoValue,
     fetch_error |-> NoValue, embedding |-> NoValue]

\* A lookup that never finds the document.
NeverFindLink(table, tweet_id, url) == 0

\* .withIndex("by_tweet_url", q => q.eq("tweet_id", t).eq("url", u)).unique()
FindLink(table, tweet_id, url) ==
    LET hits == {k \in 1..Len(table) :
                    table[k].tweet_id = tweet_id /\ table[k].url = url}
    IN  IF hits = {} THEN 0 ELSE CHOOSE k \in hits : \A m \in hits : k <= m

\* mutation upsertLinks: the handler's loop over args.links.
RECURSIVE UpsertLinksLoop(_, _, _, _, _)
UpsertLinksLoop(args, table, seen, inserted, updated) ==
    IF args = << >>
    THEN [table |-> table, inserted |-> inserted, updated |-> updated]
    ELSE LET l == Head(args)
             key == <<l.tweet_id, l.url>>
             k == FindLink(table, l.tweet_id, l.url)
         IN  IF key \in seen
             THEN UpsertLinksLoop(Tail(args), table, seen, inserted, updated)
             ELSE IF k # 0
             THEN UpsertLinksLoop(Tail(args),
                                  [table EXCEPT ![k].expanded_url = l.expanded_url,
                                                ![k].domain = l.domain],
                                  seen \cup {key}, inserted, updated + 1)
             ELSE UpsertLinksLoop(Tail(args), Append(table, LinkDoc(l)),
                                  seen \cup {key}, inserted + 1, updated)

upsertLinks(table, args) == UpsertLinksLoop(args, table, {}, 0, 0)

\* raw_data?.legacy?.entities?.urls when it is an array, else no entities.
\* raw_data is kept as the list of url entities it carries.
UrlEntities(raw_data) == raw_data

\* Every scanned URL is pushed.
ScanAppend(urls, scanned) ==
    urls \o [k \in 1..Len(scanned) |-> [url |-> scanned[k], expanded_url |-> NoUrl]]

\* The scan half of extractUrlsFromTweetDoc / extractUrlsFromTweet: a scanned
\* URL is pushed unless it equals the url or expanded_url of one already listed.
RECURSIVE ScanInto(_, _)
ScanInto(urls, scanned) ==
    IF scanned = << >> THEN urls
    ELSE LET u == Head(scanned) IN
         IF \E k \in 1..Len(urls) : urls[k].url = u \/ urls[k].expanded_url = u
         THEN ScanInto(urls, Tail(scanned))
         ELSE ScanInto(Append(urls, [url |-> u, expanded_url |-> NoUrl]),
                       Tail(scanned))

extractUrlsFromTweetDoc(tweet) ==
    ScanInto(UrlEntities(tweet.raw_data), ScanUrls(tweet.content))

\* backfillLinks, the inner loop over one tweet's urls.
RECURSIVE BackfillUrls(_, _, _, _)
BackfillUrls(urls, tweet_id, table, seen) ==
    IF urls = << >> THEN table
    ELSE LET u == Head(urls)
             domain == extractDomain(IF u.expanded_url # NoUrl
                                     THEN u.expanded_url ELSE u.url)
         IN  IF u.url \in seen
             THEN BackfillUrls(Tail(urls), tweet_id, table, seen)
             ELSE IF domain # NoDomain /\ domain \in LINK_SKIP_DOMAINS
             THEN BackfillUrls(Tail(urls), tweet_id, table, seen \cup {u.url})
             ELSE IF FindLink(table, tweet_id, u.url) # 0
             THEN BackfillUrls(Tail(urls), tweet_id, table, seen \cup {u.url})
             ELSE BackfillUrls(Tail(urls), tweet_id,
                               Append(table,
                                      LinkDoc([tweet_id |-> tweet_id, url |-> u.url,
                                               expanded_url |-> u.expanded_url,
                                               domain |-> domain])),
                               seen \cup {u.url})

\* backfillLinks, the outer loop over the selected tweets (by table index):
\* extract and insert, then patch links_extracted_at.
RECURSIVE BackfillTweets(_, _, _)
BackfillTweets(idx, tw, ln) ==
    IF idx = << >> THEN [tweets |-> tw, links |-> ln]
    ELSE LET k == Head(idx) IN
         BackfillTweets(Tail(idx),
                        [tw EXCEPT ![k].links_extracted_at = "now"],
                        BackfillUrls(extractUrlsFromTweetDoc(tw[k]),
                                     tw[k].tweet_id, ln, {}))

\* mutation backfillLinks({limit})
backfillLinks(tw, ln, limit) ==
    BackfillTweets(Take(SelectIdx(tw, LAMBDA d : d.links_extracted_at = NoValue), limit),
                   tw, ln)

\* internalQuery getTweetsWithoutEmbedding({limit}), as table indices
getTweetsWithoutEmbedding(tw, limit) ==
    Take(SelectIdx(tw, LAMBDA d : d.embedding = NoValue), limit)

\* internalQuery getLikesWithoutEmbedding({limit}), as table indices
getLikesWithoutEmbedding(lk, limit) ==
    Take(SelectIdx(lk, LAMBDA d : d.embedding = NoValue /\ d.content # NoValue), limit)

\* internalQuery getLinksWithoutMetadata({limit}), as table indices
getLinksWithoutMetadata(ln, limit) ==
    Take(SelectIdx(ln, LAMBDA d : /\ d.title = NoValue
                                  /\ d.fetched_at = NoValue
                                  /\ d.fetch_error = NoValue), limit)

\* A query for every link that has no embedding, titled or not.
LinksLackingEmbedding(ln, limit) ==
    Take(SelectIdx(ln, LAMBDA d : d.embedding = NoValue), limit)

\* internalQuery getLinksWithoutEmbedding({limit}), as table indices
getLinksWithoutEmbedding(ln, limit) ==
    Take(SelectIdx(ln, LAMBDA d : d.embedding = NoValue /\ d.title # NoValue), limit)

\* internalMutation setTweetEmbedding, for each index of idx
RECURSIVE setTweetEmbedding(_, _)
setTweetEmbedding(tw, idx) ==
    IF idx = << >> THEN tw
    ELSE setTweetEmbedding([tw EXCEPT ![Head(idx)].embedding = "vector",
                                      ![Head(idx)].processed_at = "now"],
                           Tail(idx))

\* internalMutation setLikeEmbedding / setLinkEmbedding, for each index of idx
RECURSIVE setEmbedding(_, _)
setEmbedding(table, idx) ==
    IF idx = << >> THEN table
    ELSE setEmbedding([table EXCEPT ![Head(idx)].embedding = "vector"], Tail(idx))

\* internalMutation updateLinkMetadata: every field of the patch is taken
\* from args, so a field args leaves out is removed from the document.
updateLinkMetadata(doc, args) ==
    [doc EXCEPT !.title = args.title,
                !.description = args.description,
                !.domain = args.domain,
                !.content_type = args.content_type,
                !.fetched_at = args.fetched_at,
                !.fetch_error = args.fetch_error]

\* internalQuery getLatestSyncState: query("sync_state").order("desc").first(),
\* as the list of at most one document
getLatestSyncState(table) == IF table = << >> THEN << >> ELSE << table[Len(table)] >>

-----------------------------------------------------------------------------
(***************************************************************************)
(* fetchLinkMetadata (Convex action helper).                               *)
(***************************************************************************)

\* What the network does with one call of fetchLinkMetadata: the kind of
\* answer to the GET (a rejected fetch, a body that is not HTML, an HTML
\* page, an HTML page without any of the tags), where a HEAD on a short
\* link ends up after redirects, and the HTML page of the answer.
NetKinds == {"error", "nonhtml", "html", "html_notitle"}

\* url.includes("t.co/")
IsShort(url) == url.host = <<"t", "co">>

\* An HTML page, as the six patterns of fetchLinkMetadata see it: the content
\* each pattern captures, undefined when the pattern does not match.
NoPage ==
    [ogTitle |-> NoValue, twitterTitle |-> NoValue, titleElement |-> NoValue,
     ogDescription |-> NoValue, twitterDescription |-> NoValue,
     metaDescription |-> NoValue]

PlainPage == [NoPage EXCEPT !.titleElement = "Title", !.metaDescription = "Description"]

Nets(url) ==
    {[kind |-> k, redirect |-> r,
      page |-> IF k = "html" THEN PlainPage ELSE NoPage] :
        k \in NetKinds,
        r \in IF IsShort(url) THEN {UrlArticle, UrlStatus} ELSE {url}}

NoMetadata ==
    [title |-> NoValue, description |-> NoValue, domain |-> NoDomain,
     contentType |-> NoValue, requests |-> << >>]

\* a || b || c on the results of html.match(...)
FirstMatch(a, b, c) == IF a # NoValue THEN a ELSE IF b # NoValue THEN b ELSE c

\* description of the cheerio fetcher of src/src/process/links.ts:
\* og:description || twitter:description || name="description".
CardBeforeMeta(html) ==
    FirstMatch(html.ogDescription, html.twitterDescription, html.metaDescription)

\* titleMatch: og:title || twitter:title || <title>
titleMatch(html) == FirstMatch(html.ogTitle, html.twitterTitle, html.titleElement)

\* descMatch: og:description || name="description" || twitter:description
descMatch(html) ==
    FirstMatch(html.ogDescription, html.metaDescription, html.twitterDescription)

\* A fetch that asks for the content whatever the domain.
FetchEveryDomain(url, net) ==
    [title |-> titleMatch(net.page), description |-> descMatch(net.page),
     domain |-> extractDomain(IF IsShort(url) THEN net.redirect ELSE url),
     contentType |-> "text/html",
     requests |-> IF IsShort(url) THEN <<"HEAD", "GET">> ELSE <<"GET">>]

\* try { HEAD for a short link; skip-domain check; GET; content-type check;
\* title / description match } catch { return {} }.  `requests` lists the
\* requests the call issued; head_error is a HEAD that rejects.
fetchLinkMetadata(url, net) ==
    LET expandedUrl == IF IsShort(url) THEN net.redirect ELSE url
        domain == extractDomain(expandedUrl)
        head == IF IsShort(url) THEN <<"HEAD">> ELSE << >>
    IN  IF IsShort(url) /\ net.kind = "head_error"
        THEN [NoMetadata EXCEPT !.requests = head]
        ELSE IF expandedUrl.host = << >>
        THEN [NoMetadata EXCEPT !.requests = head]
        ELSE IF domain \in LINK_SKIP_DOMAINS
        THEN [NoMetadata EXCEPT !.domain = domain, !.requests = head]
        ELSE IF net.kind = "error"
        THEN [NoMetadata EXCEPT !.requests = Append(head, "GET")]
        ELSE IF net.kind = "nonhtml"
        THEN [NoMetadata EXCEPT !.domain = domain, !.contentType = "application/pdf",
                                !.requests = Append(head, "GET")]
        ELSE [title |-> titleMatch(net.page),
              description |-> descMatch(net.page),
              domain |-> domain, contentType |-> "text/html",
              requests |-> Append(head, "GET")]

\* How the store answers the updateLinkMetadata mutation(s) for one link:
\* the first succeeds; the first throws and the one in the catch block
\* succeeds; both throw.
StoreAnswers == {"ok", "retry_ok", "fail"}

-----------------------------------------------------------------------------
(***************************************************************************)
(* Locals of the actions, and the observation of a run.                    *)
(***************************************************************************)

DefaultTweetLimit == 20
DefaultLikeLimit == 20
DefaultLinkMetaLimit == 10
DefaultLinkEmbedLimit == 10
DefaultLinkExtractLimit == 200
\* args.linkExtractLimit ?? 200: the default, and a limit below the number
\* of posts one run can add.
LinkExtractLimits == {DefaultLinkExtractLimit, 1}
DefaultUpsertChunkSize == 100
MinUpsertChunkSize == 10
MaxUpsertChunkSize == 500

NoResult ==
    [tweets_embedded |-> 0, likes_embedded |-> 0,
     links_metadata_fetched |-> 0, links_embedded |-> 0, errors |-> 0]

RunIdle ==
    [pc |-> "idle", caller |-> "none", syncType |-> "none",
     strictCheckpoint |-> FALSE, ignoreCheckpoint |-> FALSE,
     window |-> << >>, previousLatestTweetId |-> NoValue,
     latestTweetId |-> NoValue, checkpointHit |-> FALSE,
     tweets |-> << >>, i |-> 0, added |-> << >>, updated |-> << >>,
     tweetLimit |-> 0, likeLimit |-> 0, linkMetaLimit |-> 0, linkEmbedLimit |-> 0,
     tweetsAdded |-> 0, tweetsUpdated |-> 0, todo |-> << >>, result |-> NoResult]

NoAttempt == [link |-> 0, net |-> "none", answer |-> "none"]

HistIdle ==
    [runs |-> 0, ops |-> 0, resets |-> 0, kind |-> "none", recorded |-> 0, events |-> << >>,
     attempt |-> NoAttempt]

\* A new top-level run of the given kind begins.
HistBegin(kind) ==
    [HistIdle EXCEPT !.runs = hist.runs + 1, !.ops = hist.ops,
                     !.resets = hist.resets, !.kind = kind]

\* The run performed a write of stage ev (consecutive repeats are one entry).
Logged(h, ev) ==
    IF h.events # << >> /\ h.events[Len(h.events)] = ev THEN h
    ELSE [h EXCEPT !.events = Append(@, ev)]

\* No action and no import is in progress.
Quiescent ==
    /\ run.pc = "idle"
    /\ cli.pc = "idle"
    /\ call.pc = "idle"

MaxRuns == 2

-----------------------------------------------------------------------------
(***************************************************************************)
(* action syncTweetVault.                                                  *)
(***************************************************************************)

\* The stored checkpoint, whatever ignoreCheckpoint says.
StoredCheckpoint(ignoreCheckpoint, table) ==
    IF table = << >> THEN NoValue ELSE table[Len(table)].latest_tweet_id

\* The checkpoint read from the latest sync_state document.
ResolveCheckpoint(ignoreCheckpoint, table) ==
    IF ignoreCheckpoint THEN NoValue
    ELSE LET lastSync == getLatestSyncState(table) IN
         IF lastSync = << >> THEN NoValue ELSE lastSync[1].latest_tweet_id

\* The UpsertTweet pushed for one fetched tweet (includeRaw is left at its
\* default, false, so raw_data is undefined).
ToUpsertTweet(tweet) ==
    [tweet_id |-> tweet.id, author_username |-> tweet.username,
     content |-> tweet.text, raw_data |-> << >>, processed_at |-> NoValue]

RECURSIVE ScanPastCheckpoint(_, _, _)
ScanPastCheckpoint(window, previous, acc) ==
    IF window = << >> THEN [tweets |-> acc, checkpointHit |-> FALSE]
    ELSE LET tweet == Head(window) IN
         IF tweet.id = NoValue \/ tweet.username = NoValue \/ tweet.text = << >>
         THEN ScanPastCheckpoint(Tail(window), previous, acc)
         ELSE ScanPastCheckpoint(Tail(window), previous, Append(acc, ToUpsertTweet(tweet)))

\* for (const tweet of result.tweets) { break at the checkpoint; skip an
\* item without id, username or text; push }
RECURSIVE ScanWindow(_, _, _)
ScanWindow(window, previous, acc) ==
    IF window = << >> THEN [tweets |-> acc, checkpointHit |-> FALSE]
    ELSE LET tweet == Head(window) IN
         IF previous # NoValue /\ tweet.id = previous
         THEN [tweets |-> acc, checkpointHit |-> TRUE]
         ELSE IF tweet.id = NoValue \/ tweet.username = NoValue \/ tweet.text = << >>
         THEN ScanWindow(Tail(window), previous, acc)
         ELSE ScanWindow(Tail(window), previous, Append(acc, ToUpsertTweet(tweet)))

\* The loop of syncTweetVault over the fetched window.
CollectCandidates(window, previous) == ScanWindow(window, previous, << >>)

\* Math.max(10, Math.min(args.upsertChunkSize ?? 100, 500))
chunkSize ==
    Max(MinUpsertChunkSize, Min(DefaultUpsertChunkSize, MaxUpsertChunkSize))

NeverMismatch(previous, checkpointHit, strict, ignore) == FALSE

\* The test without its first operand: a strict run whose scan met no
\* checkpoint, whether or not one was resolved.
MismatchWithoutCheckpoint(previous, checkpointHit, strict, ignore) ==
    /\ ~checkpointHit
    /\ strict
    /\ ~ignore

\* if (previousLatestTweetId && !checkpointHit && args.strictCheckpoint &&
\*     !args.ignoreCheckpoint) throw
StrictMismatch(previous, checkpointHit, strict, ignore) ==
    /\ previous # NoValue
    /\ ~checkpointHit
    /\ strict
    /\ ~ignore

\* The bookmark fetch fails: `throw new Error(result.error || ...)`.
SyncFetchFails ==
    /\ Quiescent
    /\ hist.runs < MaxRuns
    /\ run' = [RunIdle EXCEPT !.pc = "threw", !.caller = "sync"]
    /\ hist' = HistBegin("sync")
    /\ UNCHANGED <<sbVars, tweets, links, sync_state, twitter_likes, cli, call>>

\* From the handler's entry to the checkpoint test: resolve the checkpoint,
\* fetch the window, collect the candidates, throw on a strict mismatch.
SyncStart(window, strict, ignore) ==
    /\ Quiescent
    /\ hist.runs < MaxRuns
    /\ LET previous == ResolveCheckpoint(ignore, sync_state)
           scan == CollectCandidates(window, previous)
           mismatch == StrictMismatch(previous, scan.checkpointHit, strict, ignore)
       IN  run' = [RunIdle EXCEPT
                     !.pc = IF mismatch THEN "threw"
                            ELSE IF scan.tweets = << >> THEN "backfill"
                            ELSE "upsert",
                     !.caller = "sync",
                     !.syncType = "cron",
                     !.strictCheckpoint = strict,
                     !.ignoreCheckpoint = ignore,
                     !.window = window,
                     !.previousLatestTweetId = previous,
                     !.latestTweetId =
                         IF window = << >> THEN NoValue ELSE window[1].id,
                     !.checkpointHit = scan.checkpointHit,
                     !.tweets = scan.tweets,
                     !.tweetLimit = DefaultTweetLimit,
                     !.likeLimit = DefaultLikeLimit,
                     !.linkMetaLimit = DefaultLinkMetaLimit,
                     !.linkEmbedLimit = DefaultLinkEmbedLimit]
    /\ hist' = HistBegin("sync")
    /\ UNCHANGED <<sbVars, tweets, links, sync_state, twitter_likes, cli, call>>

\* One pass of the chunk loop: upsertTweets({tweets: chunk}).
SyncUpsertChunk ==
    /\ run.pc = "upsert"
    /\ run.i < Len(run.tweets)
    /\ LET chunk == Slice(run.tweets, run.i, run.i + chunkSize)
           res == upsertTweets(tweets, chunk)
       IN  /\ tweets' = res.table
           /\ run' = [run EXCEPT
                        !.added = @ \o res.added,
                        !.updated = @ \o res.updated,
                        !.i = @ + chunkSize,
                        !.pc = IF run.i + chunkSize < Len(run.tweets)
                               THEN "upsert" ELSE "backfill"]
    /\ hist' = Logged(hist, "posts")
    /\ UNCHANGED <<sbVars, links, sync_state, twitter_likes, cli, call>>

\* backfillLinks({limit: linkExtractLimit}), then into runProcessingPipeline
\* with tweetsAdded = upsertResult.added.length.  The handler's other locals
\* are read no more (the window only through latestTweetId) and are dropped.
SyncBackfill(linkExtractLimit) ==
    /\ run.pc = "backfill"
    /\ LET res == backfillLinks(tweets, links, linkExtractLimit) IN
       /\ tweets' = res.tweets
       /\ links' = res.links
       /\ hist' = IF res.tweets # tweets THEN Logged(hist, "extract") ELSE hist
    /\ run' = [run EXCEPT !.pc = "embedTweets",
                          !.tweetsAdded = Len(run.added),
                          !.tweetsUpdated = Len(run.updated),
                          !.window = << >>, !.tweets = << >>, !.i = 0,
                          !.added = << >>, !.updated = << >>,
                          !.strictCheckpoint = FALSE, !.ignoreCheckpoint = FALSE]
    /\ UNCHANGED <<sbVars, sync_state, twitter_likes, cli, call>>

\* action processTweetVault: runProcessingPipeline with syncType "manual".
ProcessStart ==
    /\ Quiescent
    /\ hist.runs < MaxRuns
    /\ run' = [RunIdle EXCEPT !.pc = "embedTweets", !.caller = "process",
                              !.syncType = "manual",
                              !.tweetLimit = DefaultTweetLimit,
                              !.likeLimit = DefaultLikeLimit,
                              !.linkMetaLimit = DefaultLinkMetaLimit,
                              !.linkEmbedLimit = DefaultLinkEmbedLimit]
    /\ hist' = HistBegin("process")
    /\ UNCHANGED <<sbVars, tweets, links, sync_state, twitter_likes, cli, call>>

-----------------------------------------------------------------------------
(***************************************************************************)
(* runProcessingPipeline: embed tweets, embed likes, fetch link metadata,  *)
(* embed links, insert the sync_state document.                            *)
(***************************************************************************)

\* getTweetsWithoutEmbedding, and the call of embedTexts when it found some.
PipeTweetsQuery ==
    /\ run.pc = "embedTweets"
    /\ call.pc = "idle"
    /\ LET todo == getTweetsWithoutEmbedding(tweets, run.tweetLimit) IN
       IF todo = << >>
       THEN /\ run' = [run EXCEPT !.pc = "embedLikes"]
            /\ call' = call
       ELSE /\ run' = [run EXCEPT !.todo = todo]
            /\ call' = CallStart
    /\ UNCHANGED <<sbVars, tweets, links, sync_state, twitter_likes, cli, hist>>

\* embedTexts returned: setTweetEmbedding for each selected tweet.
PipeTweetsWrite ==
    /\ run.pc = "embedTweets"
    /\ call.pc = "returned"
    /\ tweets' = setTweetEmbedding(tweets, run.todo)
    /\ run' = [run EXCEPT !.pc = "embedLikes", !.todo = << >>,
                          !.result.tweets_embedded = @ + Len(run.todo)]
    /\ call' = CallIdle
    /\ hist' = Logged(hist, "embed_posts")
    /\ UNCHANGED <<sbVars, links, sync_state, twitter_likes, cli>>

\* getLikesWithoutEmbedding, and the call of embedTexts when it found some.
PipeLikesQuery ==
    /\ run.pc = "embedLikes"
    /\ call.pc = "idle"
    /\ LET todo == getLikesWithoutEmbedding(twitter_likes, run.likeLimit) IN
       IF todo = << >>
       THEN /\ run' = [run EXCEPT !.pc = "fetchLinks"]
            /\ call' = call
       ELSE /\ run' = [run EXCEPT !.todo = todo]
            /\ call' = CallStart
    /\ UNCHANGED <<sbVars, tweets, links, sync_state, twitter_likes, cli, hist>>

\* embedTexts returned: setLikeEmbedding for each selected like.
PipeLikesWrite ==
    /\ run.pc = "embedLikes"
    /\ call.pc = "returned"
    /\ twitter_likes' = setEmbedding(twitter_likes, run.todo)
    /\ run' = [run EXCEPT !.pc = "fetchLinks", !.todo = << >>,
                          !.result.likes_embedded = @ + Len(run.todo)]
    /\ call' = CallIdle
    /\ hist' = Logged(hist, "embed_likes")
    /\ UNCHANGED <<sbVars, tweets, links, sync_state, cli>>

\* getLinksWithoutMetadata({limit: linkMetaLimit})
PipeLinksQuery ==
    /\ run.pc = "fetchLinks"
    /\ LET todo == getLinksWithoutMetadata(links, run.linkMetaLimit) IN
       run' = [run EXCEPT !.todo = todo,
                          !.pc = IF todo = << >> THEN "embedLinks" ELSE "fetchLoop"]
    /\ UNCHANGED <<sbVars, tweets, links, sync_state, twitter_likes, cli, call, hist>>

\* Arguments that carry an error next to the fetched metadata.
ErrorAlongsideMetadata(metadata) ==
    [title |-> metadata.title, description |-> metadata.description,
     domain |-> metadata.domain, content_type |-> metadata.contentType,
     fetched_at |-> "now", fetch_error |-> "error"]

\* The arguments of the updateLinkMetadata call in the try block.
MetadataArgs(metadata) ==
    [title |-> metadata.title, description |-> metadata.description,
     domain |-> metadata.domain, content_type |-> metadata.contentType,
     fetched_at |-> "now", fetch_error |-> NoValue]

\* The arguments of the updateLinkMetadata call in the catch block.
FetchErrorArgs ==
    [title |-> NoValue, description |-> NoValue, domain |-> NoDomain,
     content_type |-> NoValue, fetched_at |-> NoValue, fetch_error |-> "error"]

\* One pass of `for (const link of linksToFetch)`: fetchLinkMetadata, then
\* updateLinkMetadata; when that throws, updateLinkMetadata with fetch_error
\* from the catch block; when that throws too, the exception leaves the loop.
PipeFetchLink(net, answer) ==
    /\ run.pc = "fetchLoop"
    /\ run.todo # << >>
    /\ LET k == Head(run.todo)
           link == links[k]
           url == IF link.expanded_url # NoUrl THEN link.expanded_url ELSE link.url
           metadata == fetchLinkMetadata(url, net)
           next == IF Tail(run.todo) = << >> THEN "embedLinks" ELSE "fetchLoop"
       IN  /\ net \in Nets(url)
           /\ CASE answer = "ok" ->
                     /\ links' = [links EXCEPT
                                    ![k] = updateLinkMetadata(@, MetadataArgs(metadata))]
                     /\ run' = [run EXCEPT !.todo = Tail(@), !.pc = next,
                                           !.result.links_metadata_fetched = @ + 1]
                [] answer = "retry_ok" ->
                     /\ links' = [links EXCEPT
                                    ![k] = updateLinkMetadata(@, FetchErrorArgs)]
                     /\ run' = [run EXCEPT !.todo = Tail(@), !.pc = next,
                                           !.result.errors = @ + 1]
                [] OTHER ->
                     /\ links' = links
                     /\ run' = [run EXCEPT !.pc = "threw"]
           /\ hist' = [Logged(hist, "meta") EXCEPT
                         !.attempt = [link |-> k, net |-> net.kind,
                                      answer |-> answer]]
    /\ UNCHANGED <<sbVars, tweets, sync_state, twitter_likes, cli, call>>

\* fetchLinkMetadata awaits fetch(url, {method: "HEAD"}) or
\* fetch(expandedUrl, {headers}) with no signal and no timer: when the host
\* never answers, the await never settles and the loop goes no further.
PipeFetchHangs ==
    /\ run.pc = "fetchLoop"
    /\ run.todo # << >>
    /\ run' = [run EXCEPT !.pc = "awaiting"]
    /\ UNCHANGED <<sbVars, tweets, links, sync_state, twitter_likes, cli, call,
                   hist>>

\* getLinksWithoutEmbedding, and the call of embedTexts when it found some.
PipeLinkEmbedQuery ==
    /\ run.pc = "embedLinks"
    /\ call.pc = "idle"
    /\ LET todo == getLinksWithoutEmbedding(links, run.linkEmbedLimit) IN
       IF todo = << >>
       THEN /\ run' = [run EXCEPT !.pc = "record"]
            /\ call' = call
       ELSE /\ run' = [run EXCEPT !.todo = todo]
            /\ call' = CallStart
    /\ UNCHANGED <<sbVars, tweets, links, sync_state, twitter_likes, cli, hist>>

\* embedTexts returned: setLinkEmbedding for each selected link.
PipeLinkEmbedWrite ==
    /\ run.pc = "embedLinks"
    /\ call.pc = "returned"
    /\ links' = setEmbedding(links, run.todo)
    /\ run' = [run EXCEPT !.pc = "record", !.todo = << >>,
                          !.result.links_embedded = @ + Len(run.todo)]
    /\ call' = CallIdle
    /\ hist' = Logged(hist, "embed_links")
    /\ UNCHANGED <<sbVars, tweets, sync_state, twitter_likes, cli>>

\* embedTexts threw: no try/catch in runProcessingPipeline, the action rejects.
PipeEmbedThrows ==
    /\ run.pc \in {"embedTweets", "embedLikes", "embedLinks"}
    /\ call.pc = "threw"
    /\ run' = [run EXCEPT !.pc = "threw", !.todo = << >>]
    /\ call' = CallIdle
    /\ UNCHANGED <<sbVars, tweets, links, sync_state, twitter_likes, cli, hist>>

\* A sync_state that keeps the previous checkpoint when the scan hit it.
KeptCheckpointDoc ==
    [sync_type |-> run.syncType,
     tweets_added |-> run.tweetsAdded,
     links_processed |-> run.result.links_metadata_fetched,
     embeddings_generated |-> run.result.tweets_embedded
                              + run.result.likes_embedded
                              + run.result.links_embedded,
     latest_tweet_id |-> IF run.caller # "sync" THEN NoValue
                         ELSE IF run.checkpointHit THEN run.previousLatestTweetId
                         ELSE run.latestTweetId]

\* The document insertSyncState stores (metadata flattened to the
\* checkpoint field; syncMetadata is passed by syncTweetVault alone).
SyncStateDoc ==
    [sync_type |-> run.syncType,
     tweets_added |-> run.tweetsAdded,
     links_processed |-> run.result.links_metadata_fetched,
     embeddings_generated |-> run.result.tweets_embedded
                              + run.result.likes_embedded
                              + run.result.links_embedded,
     latest_tweet_id |-> IF run.caller = "sync" THEN run.latestTweetId ELSE NoValue]

\* insertSyncState, and the return of the result.
PipeRecord ==
    /\ run.pc = "record"
    /\ sync_state' = Append(sync_state, SyncStateDoc)
    /\ run' = [run EXCEPT !.pc = "returned"]
    /\ hist' = [Logged(hist, "sync_state") EXCEPT !.recorded = @ + 1]
    /\ UNCHANGED <<sbVars, tweets, links, twitter_likes, cli, call>>

\* The action's promise settles (it returned its result, or it rejected).
ActionSettles ==
    /\ run.pc \in {"returned", "threw"}
    /\ run.caller \in {"sync", "process"}
    /\ run' = RunIdle
    /\ hist' = [HistIdle EXCEPT !.runs = hist.runs, !.ops = hist.ops, !.resets = hist.resets]
    /\ UNCHANGED <<sbVars, tweets, links, sync_state, twitter_likes, cli, call>>

Pipeline ==
    \/ PipeTweetsQuery
    \/ PipeTweetsWrite
    \/ PipeLikesQuery
    \/ PipeLikesWrite
    \/ PipeLinksQuery
    \/ \E net \in UNION {Nets(u) : u \in {UrlArticle}}, answer \in StoreAnswers :
           PipeFetchLink(net, answer)
    \/ PipeFetchHangs
    \/ PipeLinkEmbedQuery
    \/ PipeLinkEmbedWrite
    \/ PipeEmbedThrows
    \/ PipeRecord

-----------------------------------------------------------------------------
(***************************************************************************)
(* The command-line import (scripts/initial-import.ts) on the Convex       *)
(* backend: processTweets, extractLinksFromTweets, fetchAllLinkMetadata,   *)
(* processAllEmbeddings, recordSync.                                       *)
(***************************************************************************)

UrlShort == Url(<<"t", "co">>, "x")

\* The engagement counters of a post.  A metrics value is a function from
\* the counters that are given to their numbers; NoMetrics gives none.
Counters == {"likes", "retweets", "replies", "quotes", "bookmarks"}
NoMetrics == [c \in {} |-> 0]

\* created_at strings: one that `new Date` parses, one that it does not.
DateText == "Wed Oct 10 20:19:24 +0000 2018"
DateGarbage == "not a date"

\* new Date(value).toISOString(): the ISO form, or the RangeError it throws
\* on an invalid date.
toISOString(value) ==
    IF value = DateText THEN "2018-10-10T20:19:24.000Z" ELSE "RangeError"

\* created_at ? new Date(created_at).toISOString() : undefined
CreatedAt(created_at) ==
    IF created_at \in {NoValue, ""} THEN NoValue ELSE toISOString(created_at)

\* toIsoDate of the sync action: absent for no value and for an invalid date.
toIsoDate(value) ==
    IF value \in {NoValue, ""} THEN NoValue
    ELSE IF toISOString(value) = "RangeError" THEN NoValue
    ELSE toISOString(value)

\* One item of the import file: the content it carries and the shape it has,
\* that of an exported bookmark, that of a GraphQL tweet result (whose
\* legacy.entities.urls it carries), both at once, or something neither
\* schema accepts.
ExportedItem(id) ==
    [format |-> "exported", id |-> id, username |-> "alice",
     text |-> TextOf(id), urls |-> << >>,
     created_at |-> NoValue, media |-> << >>, metrics |-> NoMetrics]

GraphQLItem(id) ==
    [format |-> "graphql", id |-> id, username |-> "alice", text |-> TextOf(id),
     urls |-> << [url |-> UrlShort, expanded_url |-> UrlArticle] >>,
     created_at |-> NoValue, media |-> << >>, metrics |-> NoMetrics]

InvalidItem ==
    [format |-> "invalid", id |-> NoValue, username |-> NoValue,
     text |-> << >>, urls |-> << >>,
     created_at |-> NoValue, media |-> << >>, metrics |-> NoMetrics]

ImportItems ==
    {ExportedItem("100"), ExportedItem("101"), GraphQLItem("102"), InvalidItem}

MaxData == 2

Imports == UNION {[1..n -> ImportItems] : n \in 0..MaxData}

\* A parser that accepts nothing.
NeverParses(data) == << >>

\* parseExportedTweet: the tweet, or null (the empty list) when
\* ExportedTweetSchema rejects the item or toISOString throws; raw_data is
\* parsed.raw, absent here; metrics is what the item gives, or {}.
parseExportedTweet(data) ==
    IF data.format \notin {"exported", "both"} THEN << >>
    ELSE IF CreatedAt(data.created_at) = "RangeError" THEN << >>
    ELSE << [tweet_id |-> data.id, author_username |-> data.username,
             content |-> data.text, raw_data |-> << >>,
             processed_at |-> NoValue,
             created_at |-> CreatedAt(data.created_at),
             media_urls |-> data.media,
             metrics |-> data.metrics] >>

\* parseGraphQLTweet: the tweet, or null when TweetDataSchema rejects the
\* item or toISOString throws; raw_data is the item itself; a counter the
\* item does not give is 0.
parseGraphQLTweet(data) ==
    IF data.format \notin {"graphql", "both"} THEN << >>
    ELSE IF CreatedAt(data.created_at) = "RangeError" THEN << >>
    ELSE << [tweet_id |-> data.id, author_username |-> data.username,
             content |-> data.text, raw_data |-> data.urls,
             processed_at |-> NoValue,
             created_at |-> CreatedAt(data.created_at),
             media_urls |-> data.media,
             metrics |-> [c \in Counters |->
                             IF c \in DOMAIN data.metrics
                             THEN data.metrics[c] ELSE 0]] >>

\* A parse loop that drops the items no parser accepts without counting them.
ParseUncounted(data, parsedTweets, skipped) ==
    [parsedTweets |->
        parsedTweets \o
        [k \in 1..Len(SelectSeq(data, LAMBDA d : d.format # "invalid")) |->
            LET d == SelectSeq(data, LAMBDA e : e.format # "invalid")[k] IN
            IF parseExportedTweet(d) # << >> THEN parseExportedTweet(d)[1]
            ELSE parseGraphQLTweet(d)[1]],
     skipped |-> skipped]

\* processTweets, the parse loop: the parsed tweets and the count of skipped.
RECURSIVE ParseLoop(_, _, _)
ParseLoop(data, parsedTweets, skipped) ==
    IF data = << >> THEN [parsedTweets |-> parsedTweets, skipped |-> skipped]
    ELSE LET exported == parseExportedTweet(Head(data))
             tweet == IF exported # << >> THEN exported
                      ELSE parseGraphQLTweet(Head(data))
         IN  IF tweet = << >>
             THEN ParseLoop(Tail(data), parsedTweets, skipped + 1)
             ELSE ParseLoop(Tail(data), Append(parsedTweets, tweet[1]), skipped)

\* processTweets(tweets): parse, upsert, report the added and the skipped.
processTweets(table, data) ==
    LET p == ParseLoop(data, << >>, 0) IN
    IF p.parsedTweets = << >>
    THEN [table |-> table, added |-> << >>, skipped |-> p.skipped]
    ELSE LET res == upsertTweets(table, p.parsedTweets)
             added == SelectSeq(p.parsedTweets,
                                LAMBDA t : t.tweet_id \in Range(res.added))
         IN  [table |-> res.table, added |-> added,
              skipped |-> p.skipped + (Len(p.parsedTweets) - Len(added))]

\* extractUrlsFromTweet: the url entities, then the URLs scanned from the text.
extractUrlsFromTweet(tweet) ==
    ScanInto(UrlEntities(tweet.raw_data), ScanUrls(tweet.content))

\* extractLinksFromTweets, the loop over one tweet's urls.
RECURSIVE LinkBatchUrls(_, _, _)
LinkBatchUrls(urls, tweet_id, acc) ==
    IF urls = << >> THEN acc
    ELSE LET u == Head(urls)
             domain == extractDomain(IF u.expanded_url # NoUrl
                                     THEN u.expanded_url ELSE u.url)
             key == <<tweet_id, u.url>>
         IN  IF domain # NoDomain /\ domain \in LINK_SKIP_DOMAINS
             THEN LinkBatchUrls(Tail(urls), tweet_id,
                                [acc EXCEPT !.skipped = @ + 1])
             ELSE IF key \in acc.seen
             THEN LinkBatchUrls(Tail(urls), tweet_id,
                                [acc EXCEPT !.skipped = @ + 1])
             ELSE LinkBatchUrls(Tail(urls), tweet_id,
                                [acc EXCEPT
                                   !.seen = @ \cup {key},
                                   !.linkBatch =
                                       Append(@, [tweet_id |-> tweet_id,
                                                  url |-> u.url,
                                                  expanded_url |-> u.expanded_url,
                                                  domain |-> domain])])

\* extractLinksFromTweets, the loop over the tweets.
RECURSIVE LinkBatchLoop(_, _)
LinkBatchLoop(added, acc) ==
    IF added = << >> THEN acc
    ELSE LinkBatchLoop(Tail(added),
                       LinkBatchUrls(extractUrlsFromTweet(Head(added)),
                                     Head(added).tweet_id, acc))

LinkChunkSize == 100
MetaBatchSize == 50
maxRounds == 50
EmbedConcurrency == 3
EmbedMinBatchSize == 5
EmbedBatchFactor == 10
EmbedMaxRounds == 50

\* const batchSize = Math.max(5, concurrency * 10)
EmbedBatchSize == Max(EmbedMinBatchSize, EmbedConcurrency * EmbedBatchFactor)

CliIdle ==
    [pc |-> "idle", data |-> << >>, hasPrev |-> FALSE, prevData |-> << >>,
     rowsBefore |-> 0, added |-> << >>, addedCount |-> 0, skipped |-> 0,
     linkBatch |-> << >>, i |-> 0, inserted |-> 0, round |-> 0,
     tweetProcessed |-> 0, linkProcessed |-> 0]

\* main, step 1: processTweets(data), then `if (added.length === 0) return`.
CliProcessTweets(data) ==
    /\ Quiescent
    /\ hist.runs < MaxRuns
    /\ LET res == processTweets(tweets, data) IN
       /\ tweets' = res.table
       /\ cli' = [cli EXCEPT
                    !.pc = IF res.added = << >> THEN "done" ELSE "extract",
                    !.data = data,
                    !.rowsBefore = Len(tweets),
                    !.added = res.added,
                    !.addedCount = Len(res.added),
                    !.skipped = res.skipped]
       /\ hist' = IF res.table # tweets
                  THEN Logged(HistBegin("import"), "posts")
                  ELSE HistBegin("import")
    /\ UNCHANGED <<sbVars, links, sync_state, twitter_likes, run, call>>

\* main, step 2, first half: extractLinksFromTweets builds linkBatch.
CliExtractLinks ==
    /\ cli.pc = "extract"
    /\ LET acc == LinkBatchLoop(cli.added,
                                [linkBatch |-> << >>, seen |-> {}, skipped |-> 0])
       IN  cli' = [cli EXCEPT
                     !.pc = IF acc.linkBatch = << >> THEN "metaRound"
                            ELSE "upsertLinks",
                     !.added = << >>,
                     !.linkBatch = acc.linkBatch,
                     !.i = 0]
    /\ UNCHANGED <<sbVars, tweets, links, sync_state, twitter_likes, run, call, hist>>

\* main, step 2, second half: one pass of the chunk loop, upsertLinks(chunk).
CliUpsertLinksChunk ==
    /\ cli.pc = "upsertLinks"
    /\ cli.i < Len(cli.linkBatch)
    /\ LET chunk == Slice(cli.linkBatch, cli.i, cli.i + LinkChunkSize)
           res == upsertLinks(links, chunk)
           last == cli.i + LinkChunkSize >= Len(cli.linkBatch)
       IN  /\ links' = res.table
           /\ cli' = [cli EXCEPT
                        !.inserted = @ + res.inserted,
                        !.i = IF last THEN 0 ELSE @ + LinkChunkSize,
                        !.linkBatch = IF last THEN << >> ELSE @,
                        !.pc = IF last THEN "metaRound" ELSE "upsertLinks"]
    /\ hist' = Logged(hist, "extract")
    /\ UNCHANGED <<sbVars, tweets, sync_state, twitter_likes, run, call>>

\* runProcessing(args): the processTweetVault action, called by the import.
CliRunProcessing(tweetLimit, likeLimit, linkMetaLimit, linkEmbedLimit) ==
    [RunIdle EXCEPT !.pc = "embedTweets", !.caller = "cli",
                    !.syncType = "manual",
                    !.tweetLimit = tweetLimit,
                    !.likeLimit = likeLimit,
                    !.linkMetaLimit = linkMetaLimit,
                    !.linkEmbedLimit = linkEmbedLimit]

\* fetchAllLinkMetadata, one round begins: runProcessing with the metadata
\* stage alone.
CliMetaRound ==
    /\ cli.pc = "metaRound"
    /\ cli.round < maxRounds
    /\ run.pc = "idle"
    /\ run' = CliRunProcessing(0, 0, MetaBatchSize, 0)
    /\ cli' = [cli EXCEPT !.pc = "metaWait"]
    /\ UNCHANGED <<sbVars, tweets, links, sync_state, twitter_likes, call, hist>>

\* fetchAllLinkMetadata, the round's result: stop when it fetched nothing
\* or the rounds are used up.
CliMetaReturned ==
    /\ cli.pc = "metaWait"
    /\ run.pc = "returned"
    /\ LET over == \/ run.result.links_metadata_fetched = 0
                   \/ cli.round + 1 >= maxRounds
       IN  cli' = [cli EXCEPT !.round = IF over THEN 0 ELSE @ + 1,
                              !.pc = IF over THEN "embedRound" ELSE "metaRound"]
    /\ run' = RunIdle
    /\ UNCHANGED <<sbVars, tweets, links, sync_state, twitter_likes, call, hist>>

\* processAllEmbeddings, one round begins: runProcessing with the embedding
\* stages alone.
CliEmbedRound ==
    /\ cli.pc = "embedRound"
    /\ cli.round < EmbedMaxRounds
    /\ run.pc = "idle"
    /\ run' = CliRunProcessing(EmbedBatchSize, EmbedBatchSize, 0, EmbedBatchSize)
    /\ cli' = [cli EXCEPT !.pc = "embedWait"]
    /\ UNCHANGED <<sbVars, tweets, links, sync_state, twitter_likes, call, hist>>

\* processAllEmbeddings, the round's result: stop when it embedded no tweet
\* and no link, or the rounds are used up.
CliEmbedReturned ==
    /\ cli.pc = "embedWait"
    /\ run.pc = "returned"
    /\ LET over == \/ run.result.tweets_embedded + run.result.links_embedded = 0
                   \/ cli.round + 1 >= EmbedMaxRounds
       IN  cli' = [cli EXCEPT
                     !.tweetProcessed = @ + run.result.tweets_embedded,
                     !.linkProcessed = @ + run.result.links_embedded,
                     !.round = IF over THEN 0 ELSE @ + 1,
                     !.pc = IF over THEN "record" ELSE "embedRound"]
    /\ run' = RunIdle
    /\ UNCHANGED <<sbVars, tweets, links, sync_state, twitter_likes, call, hist>>

\* runProcessing rejected: main().catch logs and exits with status 1.
CliRunRejected ==
    /\ cli.pc \in {"metaWait", "embedWait"}
    /\ run.pc = "threw"
    /\ cli' = [cli EXCEPT !.pc = "crashed"]
    /\ run' = RunIdle
    /\ UNCHANGED <<sbVars, tweets, links, sync_state, twitter_likes, call, hist>>

\* main, the end: recordSync({...}).
CliRecordSync ==
    /\ cli.pc = "record"
    /\ sync_state' = Append(sync_state,
                            [sync_type |-> "manual",
                             tweets_added |-> cli.addedCount,
                             links_processed |-> cli.inserted,
                             embeddings_generated |-> cli.tweetProcessed
                                                      + cli.linkProcessed,
                             latest_tweet_id |-> NoValue])
    /\ cli' = [cli EXCEPT !.pc = "done"]
    /\ hist' = [Logged(hist, "sync_state") EXCEPT !.recorded = @ + 1]
    /\ UNCHANGED <<sbVars, tweets, links, twitter_likes, run, call>>

\* The process exits; what stays is which file it had been given.
CliExit ==
    /\ cli.pc \in {"done", "crashed"}
    /\ cli' = [CliIdle EXCEPT !.hasPrev = TRUE, !.prevData = cli.data]
    /\ hist' = [HistIdle EXCEPT !.runs = hist.runs, !.ops = hist.ops, !.resets = hist.resets]
    /\ UNCHANGED <<sbVars, tweets, links, sync_state, twitter_likes, run, call>>

-----------------------------------------------------------------------------
(***************************************************************************)
(* The concurrent stages of the Supabase-backed variant:                   *)
(* fetchAllLinkMetadata in slices of `concurrency` awaited with            *)
(* Promise.allSettled, and the                                             *)
(* p-limit pools of fetchAllLinkMetadata / generateTweetEmbeddings.        *)
(* p-limit is taken by its contract: of the functions handed to            *)
(* limit(...), at most `concurrency` run at once, the others wait in       *)
(* submission order and one is started whenever a running one settles.     *)
(***************************************************************************)

MaxPoolItems == 6

\* Values of the concurrency argument; 5 is the default of fetchAllLinkMetadata,
\* 3 that of generateTweetEmbeddings.
Concurrencies == {1, 3, 5}

\* Values of the batchSize argument, below and at the largest backlog.
BatchSizes == {2, MaxPoolItems}

\* The stages: fetchAllLinkMetadata in slices, fetchAllLinkMetadata with
\* p-limit, generateTweetEmbeddings with p-limit.
PoolIdle ==
    [pc |-> "idle", variant |-> "none", concurrency |-> 0, n |-> 0, i |-> 0,
     queued |-> << >>, inflight |-> {},
     batchSize |-> 0, left |-> {}, attempted |-> {}, batch |-> << >>]

\* .limit(batchSize) of the rows `left` that the query's filter selects, in
\* row order.
RECURSIVE FirstRows(_, _)
FirstRows(left, batchSize) ==
    IF left = {} \/ batchSize = 0 THEN << >>
    ELSE LET row == CHOOSE r \in left : \A q \in left : r <= q
         IN  <<row>> \o FirstRows(left \ {row}, batchSize - 1)

\* How one task ends: its result was stored; the fetch or the embedding
\* failed (fetchAllLinkMetadata stores fetch_error, generateTweetEmbeddings
\* counts the failure); the store refused what the task wrote.
Outcomes == {"ok", "fail", "rejected"}

\* The rows the query selects once the task for `row` ended with `outcome`.
LeftAfter(variant, left, row, outcome) ==
    CASE outcome = "rejected" -> left
      [] outcome = "ok" -> left \ {row}
      [] OTHER -> IF variant = "plimit_embed" THEN left ELSE left \ {row}

WholeBatch(n, i, concurrency) == (i + 1)..n

\* links.slice(i, i + concurrency), as the positions of the sliced links
BatchOf(n, i, concurrency) == (i + 1)..Min(i + concurrency, n)

\* fetchAllLinkMetadata(concurrency, batchSize), slicing variant, up to the
\* loop: one getLinksWithoutMetadata(batchSize) on a store with `backlog`
\* candidate links; `return` at once when it found none.
SlicesStart(concurrency, batchSize, backlog) ==
    /\ pool.pc = "idle"
    /\ LET batch == FirstRows(1..backlog, batchSize) IN
       pool' = [PoolIdle EXCEPT !.pc = IF batch = << >> THEN "done" ELSE "launch",
                                !.variant = "slices",
                                !.concurrency = concurrency, !.n = Len(batch),
                                !.batchSize = batchSize, !.left = 1..backlog,
                                !.batch = batch]
    /\ UNCHANGED <<tweets, links, sync_state, twitter_likes, run, cli, call, hist,
                   sb_tweets, sb_links, writer, fn>>

\* batch.map(async (link) => ...): every task of the slice starts.
SlicesLaunch ==
    /\ pool.pc = "launch"
    /\ pool' = [pool EXCEPT !.inflight = BatchOf(pool.n, pool.i, pool.concurrency),
                            !.pc = "await"]
    /\ UNCHANGED <<tweets, links, sync_state, twitter_likes, run, cli, call, hist,
                   sb_tweets, sb_links, writer, fn>>

\* One task of the slice settles (fulfilled or rejected); when it was the
\* last, Promise.allSettled resolves and the loop moves to the next slice,
\* and returns after the last slice.
SlicesTaskSettles(t, outcome) ==
    /\ pool.pc = "await"
    /\ t \in pool.inflight
    /\ LET rest == pool.inflight \ {t}
           i == pool.i + pool.concurrency
           settled == [pool EXCEPT
                         !.inflight = rest,
                         !.attempted = @ \cup {pool.batch[t]},
                         !.left = LeftAfter("slices", @, pool.batch[t], outcome)]
       IN  pool' = IF rest # {} THEN settled
                   ELSE [settled EXCEPT
                           !.i = i,
                           !.pc = IF i < pool.n THEN "launch" ELSE "done"]
    /\ UNCHANGED <<tweets, links, sync_state, twitter_likes, run, cli, call, hist,
                   sb_tweets, sb_links, writer, fn>>

\* limit = pLimit(concurrency); rows.map((x) => limit(async () => ...)) on the
\* rows one query returned: the first `concurrency` functions start, the
\* others are queued.
LimitBatch(p, batch) ==
    LET n == Len(batch)
        first == Min(p.concurrency, n)
    IN  [p EXCEPT !.pc = IF n = 0 THEN "done" ELSE "all",
                  !.n = n, !.batch = batch,
                  !.inflight = 1..first,
                  !.queued = [k \in 1..(n - first) |-> first + k]]

\* fetchAllLinkMetadata (p-limit variant) / generateTweetEmbeddings, up to
\* the first pass of the while loop.
LimitStart(variant, concurrency, batchSize, backlog) ==
    /\ pool.pc = "idle"
    /\ pool' = LimitBatch([PoolIdle EXCEPT !.variant = variant,
                                           !.concurrency = concurrency,
                                           !.batchSize = batchSize,
                                           !.left = 1..backlog],
                          FirstRows(1..backlog, batchSize))
    /\ UNCHANGED <<tweets, links, sync_state, twitter_likes, run, cli, call, hist,
                   sb_tweets, sb_links, writer, fn>>

\* A running function settles and p-limit starts the head of its queue.
\* When nothing runs any more Promise.all resolves, the rows are queried
\* again and the loop goes on while the query finds some.  A task of
\* fetchAllLinkMetadata whose two updateLinkMetadata calls both throw
\* rejects, and Promise.all with it: the function throws while the tasks
\* already handed to p-limit run on.
LimitTaskSettles(t, outcome) ==
    /\ pool.pc \in {"all", "threw"}
    /\ t \in pool.inflight
    /\ outcome = "rejected" => pool.variant = "plimit_meta"
    /\ LET rest == pool.inflight \ {t}
           settled == [pool EXCEPT
                         !.attempted = @ \cup {pool.batch[t]},
                         !.left = LeftAfter(pool.variant, @, pool.batch[t], outcome),
                         !.pc = IF outcome = "rejected" THEN "threw" ELSE @]
       IN  pool' = IF pool.queued # << >>
                   THEN [settled EXCEPT !.inflight = rest \cup {Head(pool.queued)},
                                        !.queued = Tail(pool.queued)]
                   ELSE IF rest # {} \/ settled.pc = "threw"
                   THEN [settled EXCEPT !.inflight = rest]
                   ELSE LimitBatch([settled EXCEPT !.inflight = rest],
                                   FirstRows(settled.left, pool.batchSize))
    /\ UNCHANGED <<tweets, links, sync_state, twitter_likes, run, cli, call, hist,
                   sb_tweets, sb_links, writer, fn>>

\* The stage has returned or thrown, and the process goes on or exits.
PoolReturns ==
    /\ \/ pool.pc = "done"
       \/ pool.pc = "threw" /\ pool.inflight = {}
    /\ pool' = PoolIdle
    /\ UNCHANGED <<tweets, links, sync_state, twitter_likes, run, cli, call, hist,
                   sb_tweets, sb_links, writer, fn>>

-----------------------------------------------------------------------------
(***************************************************************************)
(* The Supabase-backed store: upsertTweets / upsertLinks of                *)
(* utils/supabase.ts, each a loop of select-then-update-or-insert          *)
(* requests, run by two clients at once against the tables of              *)
(* 001_initial_schema.sql.  A request is one statement, hence atomic; the  *)
(* select and the write after it are two requests.                         *)
(***************************************************************************)

Writers == {1, 2}

\* tweet_id values of the posts written to the Supabase store (text of digits).
SbTweetIds == {1, 2}

SbTweets == {[tweet_id |-> id, content |-> "text"] : id \in SbTweetIds}

SbLinks == {[tweet_id |-> id, url |-> UrlArticle] : id \in SbTweetIds}

MaxSbBatch == 2

SbBatches(items) == UNION {[1..n -> items] : n \in 1..MaxSbBatch}

MaxSbRuns == 3

\* Table tweets with its bigserial sequence (a value is consumed by every
\* insert, rejected or not).
SbTweetsEmpty == [rows |-> << >>, nextval |-> 1, calls |-> 0]

WriterIdle ==
    [pc |-> "idle", kind |-> "none", items |-> << >>, k |-> 0,
     existing |-> FALSE, added |-> 0, updated |-> 0]

WritersIdle == [w \in Writers |-> WriterIdle]

\* The rows a select with these eq filters returns.
SbMatches(kind, item) ==
    IF kind = "tweets"
    THEN {r \in 1..Len(sb_tweets.rows) : sb_tweets.rows[r].tweet_id = item.tweet_id}
    ELSE {r \in 1..Len(sb_links) : /\ sb_links[r].tweet_id = item.tweet_id
                                   /\ sb_links[r].url = item.url}

\* The constraints insert into links checks: `tweet_id bigint references
\* tweets (id)`; the table has no unique constraint, so a row equal to an
\* existing one in (tweet_id, url) violates nothing.
LinksInsertRejected(item) ==
    ~\E r \in 1..Len(sb_tweets.rows) : sb_tweets.rows[r].id = item.tweet_id

\* The constraint insert into tweets checks: `tweet_id text unique not null`.
TweetsInsertRejected(item) == SbMatches("tweets", item) # {}

\* upsertTweets(tweets) / upsertLinks(links) is called by client w.
SbUpsertStart(w, kind, items) ==
    /\ writer[w].pc = "idle"
    /\ sb_tweets.calls < MaxSbRuns
    /\ writer' = [writer EXCEPT ![w] = [WriterIdle EXCEPT !.pc = "select",
                                                         !.kind = kind,
                                                         !.items = items,
                                                         !.k = 1]]
    /\ sb_tweets' = [sb_tweets EXCEPT !.calls = @ + 1]
    /\ UNCHANGED <<tweets, links, sync_state, twitter_likes, run, cli, call, hist,
                   sb_links, pool, fn>>

\* const { data: existing } = await supabase.from(t).select(..).eq(..).single():
\* data is the row when exactly one row matches, null otherwise.
SbSelect(w) ==
    /\ writer[w].pc = "select"
    /\ LET item == writer[w].items[writer[w].k] IN
       writer' = [writer EXCEPT
                    ![w].existing = (Cardinality(SbMatches(writer[w].kind, item)) = 1),
                    ![w].pc = "write"]
    /\ UNCHANGED <<tweets, links, sync_state, twitter_likes, run, cli, call, hist,
                   sb_tweets, sb_links, pool, fn>>

\* if (existing) update ... else insert ...; count it unless the request
\* returned an error; on to the next item.
SbWrite(w) ==
    /\ writer[w].pc = "write"
    /\ LET me == writer[w]
           item == me.items[me.k]
           rejected == IF me.kind = "tweets" THEN TweetsInsertRejected(item)
                       ELSE LinksInsertRejected(item)
           next == IF me.k < Len(me.items) THEN "select" ELSE "done"
       IN  /\ writer' = [writer EXCEPT
                           ![w].pc = next,
                           ![w].k = IF me.k < Len(me.items) THEN @ + 1 ELSE 0,
                           ![w].existing = FALSE,
                           ![w].updated = IF me.existing THEN @ + 1 ELSE @,
                           ![w].added = IF ~me.existing /\ ~rejected
                                        THEN @ + 1 ELSE @]
           /\ sb_tweets' =
                 IF me.kind # "tweets" \/ me.existing THEN sb_tweets
                 ELSE [sb_tweets EXCEPT
                         !.nextval = @ + 1,
                         !.rows = IF rejected THEN @
                                  ELSE Append(@, [id |-> sb_tweets.nextval,
                                                  tweet_id |-> item.tweet_id,
                                                  content |-> item.content])]
           /\ sb_links' =
                 IF me.kind # "links" \/ me.existing \/ rejected THEN sb_links
                 ELSE Append(sb_links, [tweet_id |-> item.tweet_id,
                                        url |-> item.url])
    /\ UNCHANGED <<tweets, links, sync_state, twitter_likes, run, cli, call, hist,
                   pool, fn>>

\* return { added, updated } / { inserted, updated }
SbUpsertReturns(w) ==
    /\ writer[w].pc = "done"
    /\ writer' = [writer EXCEPT ![w] = WriterIdle]
    /\ UNCHANGED <<tweets, links, sync_state, twitter_likes, run, cli, call, hist,
                   sb_tweets, sb_links, pool, fn>>

-----------------------------------------------------------------------------
(***************************************************************************)
(* The public mutations called on their own, in any order, between runs of *)
(* the actions: upsertTweets, extractLinksFromTweets with its upsertLinks, *)
(* backfillLinks, resetLinksExtractedAt.                                   *)
(***************************************************************************)

MaxOps == 4

\* Tweets handed to upsertTweets: post 101 as first fetched, post 101 after
\* its author was renamed, post 102 as the import parses it, with its url
\* entities.
StoreTweets ==
    {ToUpsertTweet(BirdTweet("101", "alice")),
     ToUpsertTweet(BirdTweet("101", "bob")),
     parseGraphQLTweet(GraphQLItem("102"))[1]}

MaxBatch == 2

StoreBatches == UNION {[1..n -> StoreTweets] : n \in 1..MaxBatch}

DefaultResetLimit == 200

\* mutation upsertTweets({tweets})
MutUpsertTweets(args) ==
    /\ Quiescent
    /\ hist.ops < MaxOps
    /\ tweets' = upsertTweets(tweets, args).table
    /\ hist' = [hist EXCEPT !.ops = @ + 1]
    /\ UNCHANGED <<sbVars, links, sync_state, twitter_likes, run, cli, call>>

\* extractLinksFromTweets(tweets): build linkBatch, then upsertLinks(chunk)
\* for each chunk of 100.
RECURSIVE UpsertLinkChunks(_, _, _)
UpsertLinkChunks(table, linkBatch, i) ==
    IF i >= Len(linkBatch) THEN table
    ELSE UpsertLinkChunks(
             upsertLinks(table, Slice(linkBatch, i, i + LinkChunkSize)).table,
             linkBatch, i + LinkChunkSize)

extractLinksFromTweets(table, added) ==
    LET acc == LinkBatchLoop(added, [linkBatch |-> << >>, seen |-> {}, skipped |-> 0])
    IN  UpsertLinkChunks(table, acc.linkBatch, 0)

MutExtractLinks(args) ==
    /\ Quiescent
    /\ hist.ops < MaxOps
    /\ links' = extractLinksFromTweets(links, args)
    /\ hist' = [hist EXCEPT !.ops = @ + 1]
    /\ UNCHANGED <<sbVars, tweets, sync_state, twitter_likes, run, cli, call>>

\* mutation backfillLinks({limit})
MutBackfillLinks ==
    /\ Quiescent
    /\ hist.ops < MaxOps
    /\ LET res == backfillLinks(tweets, links, DefaultLinkExtractLimit) IN
       /\ tweets' = res.tweets
       /\ links' = res.links
    /\ hist' = [hist EXCEPT !.ops = @ + 1]
    /\ UNCHANGED <<sbVars, sync_state, twitter_likes, run, cli, call>>

\* mutation resetLinksExtractedAt({limit})
resetLinksExtractedAt(tw, limit) ==
    LET idx == Take(SelectIdx(tw, LAMBDA d : d.links_extracted_at # NoValue), limit)
    IN  [k \in 1..Len(tw) |->
            IF k \in Range(idx) THEN [tw[k] EXCEPT !.links_extracted_at = NoValue]
            ELSE tw[k]]

MutResetLinksExtractedAt ==
    /\ Quiescent
    /\ hist.ops < MaxOps
    /\ tweets' = resetLinksExtractedAt(tweets, DefaultResetLimit)
    /\ hist' = [hist EXCEPT !.ops = @ + 1,
                            !.resets = @ + Cardinality({k \in 1..Len(tweets) :
                                tweets[k].links_extracted_at # tweets'[k].links_extracted_at})]
    /\ UNCHANGED <<sbVars, links, sync_state, twitter_likes, run, cli, call>>

-----------------------------------------------------------------------------
(***************************************************************************)
(* The helper functions evaluated on their own, on every argument of a     *)
(* bounded set: fn holds the function's name, its argument and its result. *)
(***************************************************************************)

FnIdle == [name |-> "none", arg |-> << >>, result |-> << >>]

\* The caller has its result.
FnReturns ==
    /\ fn.name # "none"
    /\ fn' = FnIdle
    /\ UNCHANGED <<tweets, links, sync_state, twitter_likes, run, cli, call, hist,
                   sb_tweets, sb_links, writer, pool>>

\* A string `new URL` rejects.
UrlBroken == Url(<< >>, "")

FetchUrls == {UrlArticle, UrlShort, UrlStatus, UrlBroken}

\* Every page: each of the six patterns matches or not, and captures the
\* name of its tag when it does.
Pages ==
    [ogTitle : {NoValue, "og:title"},
     twitterTitle : {NoValue, "twitter:title"},
     titleElement : {NoValue, "title"},
     ogDescription : {NoValue, "og:description"},
     twitterDescription : {NoValue, "twitter:description"},
     metaDescription : {NoValue, "description"}]

\* Every answer of the network to fetchLinkMetadata(url).
FetchNets(url) ==
    [kind : NetKinds \cup (IF IsShort(url) THEN {"head_error"} ELSE {}),
     redirect : IF IsShort(url) THEN {UrlArticle, UrlStatus, UrlBroken} ELSE {url},
     page : Pages]

FetchLinkMetadataCall(url, net) ==
    /\ fn.name = "none"
    /\ fn' = [name |-> "fetchLinkMetadata", arg |-> [url |-> url, net |-> net],
              result |-> fetchLinkMetadata(url, net)]
    /\ UNCHANGED <<tweets, links, sync_state, twitter_likes, run, cli, call, hist,
                   sb_tweets, sb_links, writer, pool>>

\* Posts handed to extractUrlsFromTweet: up to MaxEntities url entities (a
\* t.co link expanding to the article, the article itself) and a text of
\* up to MaxTokens tokens.
MaxEntities == 2
MaxTokens == 3

EntityShort == [url |-> UrlShort, expanded_url |-> UrlArticle]
EntityPlain == [url |-> UrlArticle, expanded_url |-> NoUrl]

EntityLists == UNION {[1..n -> {EntityShort, EntityPlain}] : n \in 0..MaxEntities}

Texts ==
    UNION {[1..n -> {Word("see"), UrlArticle, UrlShort, UrlStatus}] : n \in 0..MaxTokens}

\* extractUrlsFromTweet(tweet), and the links table extractLinksFromTweets
\* leaves for that one post in an empty store.
ExtractUrlsCall(raw_data, content) ==
    /\ fn.name = "none"
    /\ LET tweet == [tweet_id |-> "100", author_username |-> "alice",
                     content |-> content, raw_data |-> raw_data,
                     processed_at |-> NoValue]
       IN  fn' = [name |-> "extractUrlsFromTweet", arg |-> tweet,
                  result |-> [urls |-> extractUrlsFromTweet(tweet),
                              rows |-> extractLinksFromTweets(<< >>, <<tweet>>)]]
    /\ UNCHANGED <<tweets, links, sync_state, twitter_likes, run, cli, call, hist,
                   sb_tweets, sb_links, writer, pool>>

-----------------------------------------------------------------------------
(***************************************************************************)
(* Specifications.                                                         *)
(***************************************************************************)

\* One like that the likes sync stored, not yet embedded.
InitLikes == << [content |-> "liked", embedding |-> NoValue] >>

Init ==
    /\ tweets = << >>
    /\ links = << >>
    /\ sync_state = << >>
    /\ twitter_likes = InitLikes
    /\ run = RunIdle
    /\ cli = CliIdle
    /\ call = CallIdle
    /\ hist = HistIdle
    /\ sb_tweets = SbTweetsEmpty
    /\ sb_links = << >>
    /\ writer = WritersIdle
    /\ pool = PoolIdle
    /\ fn = FnIdle

\* Statuses the embedding service answers with while a pipeline runs.
PipelineStatuses == {200, 429}

Next ==
    \/ SyncFetchFails
    \/ \E window \in Windows, strict \in BOOLEAN, ignore \in BOOLEAN :
           SyncStart(window, strict, ignore)
    \/ SyncUpsertChunk
    \/ \E linkExtractLimit \in LinkExtractLimits : SyncBackfill(linkExtractLimit)
    \/ ProcessStart
    \/ ActionSettles
    \/ Pipeline
    \/ \E status \in PipelineStatuses : EmbedRequest(status)
    \/ EmbedBackoff(0)

Spec == Init /\ [][Next]_vars

\* The actions keep being scheduled: whatever can take a step does.
SpecFair == Spec /\ WF_vars(Next)

-----------------------------------------------------------------------------
(***************************************************************************)
(* embedTexts on its own, against every status and every jitter.           *)
(***************************************************************************)

NextEmbed ==
    \/ \E apiKey \in BOOLEAN, texts \in 0..1 : EmbedCall(apiKey, texts)
    \/ \E status \in Statuses : EmbedRequest(status)
    \/ EmbedFetchRejects
    \/ \E jitter \in Jitters : EmbedBackoff(jitter)
    \/ EmbedSettles

SpecEmbed == Init /\ [][NextEmbed]_vars

\* The loop has just decided what to do with a response that was not OK.
Answered ==
    /\ call.pc \in {"backoff", "threw"}
    /\ call.lastStatus # 0

\* C8 as stated: a response that is not OK is retried whenever it is 429 or
\* any 5xx status and attempts remain, and fails the call at once otherwise.
C8_Any5xxRetried ==
    Answered =>
        /\ call.sleeps = call.attempt - 1
        /\ call.pc = IF /\ call.lastStatus = 429 \/ call.lastStatus \in 500..599
                        /\ call.attempt < maxAttempts
                     THEN "backoff" ELSE "threw"

\* C8, amended: a response that is not OK is retried exactly when its status
\* is one of 429, 500, 502, 503, 504 and attempts remain; on every other
\* status (501 among them) the call fails at once, with no sleep after it.
C8_ListedStatusesRetried ==
    Answered =>
        /\ call.sleeps = call.attempt - 1
        /\ call.pc = IF /\ call.lastStatus \in {429, 500, 502, 503, 504}
                        /\ call.attempt < maxAttempts
                     THEN "backoff" ELSE "threw"

\* A 5xx status outside the list ends the call while attempts remain, after
\* an earlier answer was retried.
C8_Witness ==
    /\ call.pc = "threw"
    /\ call.lastStatus = 501
    /\ call.attempt = 2
    /\ call.sleeps = 1

\* C9: a call answered 429 k times (1 <= k <= 4) and then 200 returns after
\* exactly k sleeps and k + 1 requests, and each sleep of a call is at least
\* as long as the one before it, whatever the jitters.
C9_MonotoneBackoff ==
    /\ [](call.pc = "returned" /\ call.n429 = call.attempt - 1 /\ call.attempt >= 2
            => /\ call.n429 \in 1..4
               /\ call.sleeps = call.n429
               /\ call.requests = call.n429 + 1)
    /\ [][call.pc = "backoff" /\ call.sleeps >= 1
            => call'.lastDelay >= call.lastDelay]_vars
    /\ [][call.pc = "request" /\ call.n429 = call.attempt /\ call.attempt \in 1..4
            /\ call'.lastStatus = 200 /\ call'.attempt = call.attempt + 1
            => call'.pc = "returned"]_vars

\* Three 429 answers, three sleeps (the third of 2000 ms, its jitter 0),
\* then success.
C9_Witness ==
    /\ call.pc = "returned"
    /\ call.n429 = 3
    /\ call.sleeps = 3
    /\ call.lastDelay = 2000

-----------------------------------------------------------------------------
(***************************************************************************)
(* Properties of syncTweetVault and runProcessingPipeline.                 *)
(***************************************************************************)

\* The items of window that precede the first occurrence of id c (all of
\* them when c does not occur).
BeforeCheckpoint(window, c) ==
    LET hits == {k \in 1..Len(window) : window[k].id = c}
        first == IF hits = {} THEN Len(window) + 1
                 ELSE CHOOSE k \in hits : \A m \in hits : k <= m
    IN  SubSeq(window, 1, first - 1)

\* The ids of the items that carry an id, a username and a text, in order.
UsableIds(items) ==
    LET ok == SelectSeq(items, LAMBDA t : t.username # NoValue)
    IN  [k \in 1..Len(ok) |-> ok[k].id]

TweetIds(ts) == [k \in 1..Len(ts) |-> ts[k].tweet_id]

\* The fetched window of the checkpoint scenario, newest first.
SpecWindow ==
    [k \in 1..7 |->
        BirdTweet(<<"105", "104", "103", "102", "101", "100", "99">>[k], "alice")]

\* C2: with a resolved checkpoint C the candidates are exactly the usable
\* items of the window before the first occurrence of C, and the upsert
\* touches rows of those ids only; checkpoint "100" in the window
\* 105, 104, 103, 102, 101, 100, 99 gives the 5 candidates 105..101.
C2_CandidatesBeforeCheckpoint ==
    /\ [](/\ TweetIds(CollectCandidates(SpecWindow, "100").tweets)
                = <<"105", "104", "103", "102", "101">>
          /\ (/\ run.caller = "sync"
               /\ run.pc \in {"upsert", "backfill", "threw"}
               /\ run.previousLatestTweetId # NoValue)
              => TweetIds(run.tweets)
                   = UsableIds(BeforeCheckpoint(run.window, run.previousLatestTweetId)))
    /\ [][(run.pc = "upsert" /\ run.previousLatestTweetId # NoValue)
            => \A k \in 1..Len(tweets') :
                  (k > Len(tweets) \/ tweets'[k] # tweets[k])
                  => tweets'[k].tweet_id \in
                        Range(UsableIds(BeforeCheckpoint(run.window,
                                                         run.previousLatestTweetId)))]_vars

\* A second sync found the checkpoint behind one new item and upserted that
\* item alone.
C2_Witness ==
    /\ run.caller = "sync"
    /\ run.pc = "backfill"
    /\ run.previousLatestTweetId = "100"
    /\ run.checkpointHit
    /\ [k \in 1..Len(run.window) |-> run.window[k].id] = <<"101", "100">>
    /\ run.added = <<"101">>
    /\ run.updated = << >>

\* The running sync is strict, resolved a checkpoint, and the fetched window
\* does not hold it.
CheckpointMissing ==
    /\ run.caller = "sync"
    /\ run.strictCheckpoint
    /\ ~run.ignoreCheckpoint
    /\ run.previousLatestTweetId # NoValue
    /\ \A k \in 1..Len(run.window) : run.window[k].id # run.previousLatestTweetId

\* C3: a strict sync whose checkpoint is not in the window fails; the run
\* writes no post, no link and no sync_state, and the checkpoint a next run
\* resolves is the one this run resolved.
C3_StrictMismatchFails ==
    /\ [](CheckpointMissing
            => /\ run.pc = "threw"
               /\ hist.events = << >>
               /\ hist.recorded = 0
               /\ ResolveCheckpoint(FALSE, sync_state) = run.previousLatestTweetId)
    /\ [][(CheckpointMissing \/ CheckpointMissing')
            => /\ tweets' = tweets
               /\ links' = links
               /\ sync_state' = sync_state]_vars

\* A strict sync failed on a window of two items that lacks the checkpoint.
C3_Witness ==
    /\ CheckpointMissing
    /\ run.pc = "threw"
    /\ Len(run.window) = 2
    /\ Len(run.tweets) = 2
    /\ tweets # << >>

\* The link carries something fetchLinkMetadata extracted.
HasMetadata(d) ==
    \/ d.title # NoValue
    \/ d.description # NoValue
    \/ d.content_type # NoValue
    \/ d.domain # NoDomain

\* C5: a fetch attempt whose store update went through leaves on the link
\* exactly one of extracted metadata and a fetch-error string, and a
\* fetch-error string when the network failed.
C5_AttemptWritesOutcome ==
    hist.attempt.answer = "ok" =>
        LET d == links[hist.attempt.link] IN
        /\ HasMetadata(d) # (d.fetch_error # NoValue)
        /\ hist.attempt.net = "error" => d.fetch_error # NoValue

\* C6: a store failure while recording a link's fetch error does not abort
\* the pass.
C6_StoreFailureIsolated ==
    hist.attempt.answer = "fail" => run.pc # "threw"

\* C7: when embedTexts fails after its last attempt the pipeline goes on
\* with its next stage, the batch staying unembedded.
C7_EmbeddingFailureConfined ==
    [][(/\ call.pc = "threw"
        /\ call.attempt = maxAttempts
        /\ run.pc \in {"embedTweets", "embedLikes", "embedLinks"})
        => /\ run'.pc \in {"embedLikes", "fetchLinks", "embedLinks", "record"}
           /\ tweets' = tweets
           /\ links' = links]_vars

\* The stage a write belongs to: persist posts, extract links, fetch link
\* metadata, embed, record.
StageOf(ev) ==
    CASE ev = "posts" -> 1
      [] ev = "extract" -> 2
      [] ev = "meta" -> 3
      [] ev \in {"embed_posts", "embed_links"} -> 4
      [] OTHER -> 5

\* C10: the writes of a run come stage by stage: posts, then link
\* extraction, then link metadata, then the embeddings of posts and links.
C10_StagesInOrder ==
    LET evs == SelectSeq(hist.events, LAMBDA ev : ev # "embed_likes") IN
    \A i, j \in 1..Len(evs) : i < j => StageOf(evs[i]) <= StageOf(evs[j])

-----------------------------------------------------------------------------
(***************************************************************************)
(* The command-line import against the Convex backend.                     *)
(***************************************************************************)

NextCli ==
    \/ \E data \in Imports : CliProcessTweets(data)
    \/ CliExtractLinks
    \/ CliUpsertLinksChunk
    \/ CliMetaRound
    \/ CliMetaReturned
    \/ CliEmbedRound
    \/ CliEmbedReturned
    \/ CliRunRejected
    \/ CliRecordSync
    \/ CliExit
    \/ Pipeline
    \/ \E status \in PipelineStatuses : EmbedRequest(status)
    \/ EmbedBackoff(0)

SpecCli == Init /\ [][NextCli]_vars

\* C1: an import of the file the previous import was given adds no post:
\* every item is counted as skipped and the tweets table keeps its size.
C1_SecondImportAddsNothing ==
    (cli.pc # "idle" /\ cli.hasPrev /\ cli.data = cli.prevData)
        => /\ cli.addedCount = 0
           /\ cli.skipped = Len(cli.data)
           /\ Len(tweets) = cli.rowsBefore

\* The second import of a file of two distinct posts has gone through
\* processTweets.
C1_Witness ==
    /\ cli.pc = "done"
    /\ cli.hasPrev
    /\ cli.data = cli.prevData
    /\ Len(cli.data) = 2
    /\ Len(tweets) = 2
    /\ cli.skipped = 2

\* C4: an import that ran to its end has recorded exactly one sync_state.
C4_OneSyncStatePerRun ==
    cli.pc = "done" => hist.recorded = 1

-----------------------------------------------------------------------------
(***************************************************************************)
(* The concurrent stages on their own.                                     *)
(***************************************************************************)

NextPool ==
    \/ \E concurrency \in Concurrencies, batchSize \in BatchSizes,
          backlog \in 0..MaxPoolItems :
           SlicesStart(concurrency, batchSize, backlog)
    \/ SlicesLaunch
    \/ \E t \in 1..MaxPoolItems, outcome \in Outcomes : SlicesTaskSettles(t, outcome)
    \/ \E variant \in {"plimit_meta", "plimit_embed"},
          concurrency \in Concurrencies, batchSize \in BatchSizes,
          backlog \in 0..MaxPoolItems :
           LimitStart(variant, concurrency, batchSize, backlog)
    \/ \E t \in 1..MaxPoolItems, outcome \in Outcomes : LimitTaskSettles(t, outcome)
    \/ PoolReturns

SpecPool == Init /\ [][NextPool]_vars

\* A stage that can take a step takes one: the process is not suspended
\* for ever (the service it calls may still fail every time).
SpecPoolFair == SpecPool /\ WF_vars(NextPool)

\* C11: at every moment of a concurrent stage the tasks in flight number
\* at most the concurrency argument, whatever the batch size and the order
\* in which they settle.
C11_InFlightBounded ==
    /\ Cardinality(pool.inflight) <= pool.concurrency
    /\ pool.inflight \subseteq 1..pool.n

\* With the default bound 5 and 6 links, 5 fetches are in flight while the
\* sixth has not started.
C11_Witness ==
    /\ pool.variant = "slices"
    /\ pool.concurrency = 5
    /\ pool.n = 6
    /\ Cardinality(pool.inflight) = 5

-----------------------------------------------------------------------------
(***************************************************************************)
(* Two clients upserting into the Supabase store at once.                  *)
(***************************************************************************)

NextSb ==
    \/ \E w \in Writers, items \in SbBatches(SbTweets) :
           SbUpsertStart(w, "tweets", items)
    \/ \E w \in Writers, items \in SbBatches(SbLinks) :
           SbUpsertStart(w, "links", items)
    \/ \E w \in Writers : SbSelect(w)
    \/ \E w \in Writers : SbWrite(w)
    \/ \E w \in Writers : SbUpsertReturns(w)

SpecSb == Init /\ [][NextSb]_vars

\* C12: however the selects and writes of two concurrent upserts interleave,
\* the store holds no two tweets rows of one tweet_id and no two links rows
\* of one (tweet_id, url).
C12_NoDuplicateRows ==
    /\ \A a, b \in 1..Len(sb_tweets.rows) :
          sb_tweets.rows[a].tweet_id = sb_tweets.rows[b].tweet_id => a = b
    /\ \A a, b \in 1..Len(sb_links) :
          (/\ sb_links[a].tweet_id = sb_links[b].tweet_id
           /\ sb_links[a].url = sb_links[b].url) => a = b

-----------------------------------------------------------------------------
(***************************************************************************)
(* The Convex store under any sequence of mutations and pipeline runs.     *)
(***************************************************************************)

NextStore ==
    \/ \E args \in StoreBatches : MutUpsertTweets(args)
    \/ \E args \in StoreBatches : MutExtractLinks(args)
    \/ MutBackfillLinks
    \/ MutResetLinksExtractedAt
    \/ ProcessStart
    \/ ActionSettles
    \/ Pipeline
    \/ \E status \in PipelineStatuses : EmbedRequest(status)
    \/ EmbedBackoff(0)

SpecStore == Init /\ [][NextStore]_vars

\* C13: whatever extraction operations ran, the links table holds at most
\* one document for each (tweet_id, url).
C13_LinkPairUnique ==
    \A a, b \in 1..Len(links) :
        (links[a].tweet_id = links[b].tweet_id /\ links[a].url = links[b].url)
            => a = b

\* A post's links were extracted, its marker was reset and it was extracted
\* again: its link is there once.
C13_Witness ==
    /\ hist.ops = 4
    /\ hist.resets = 1
    /\ Len(tweets) = 1
    /\ tweets[1].links_extracted_at # NoValue
    /\ Len(links) = 1

\* The documents of a table, or the entries of a list of tweets, that carry
\* one tweet_id.
CountId(seq, id) == Cardinality({k \in 1..Len(seq) : seq[k].tweet_id = id})

\* C14: when processTweets ran on a batch, every tweet_id gained at most one
\* document, and it occurs in the returned "added" as often as documents
\* were gained for it: once for a new id however often the batch repeats it.
C14_DuplicateCollapsed ==
    [][(cli.pc = "idle" /\ cli'.pc # "idle") =>
          \A id \in Ids :
              LET gained == CountId(tweets', id) - CountId(tweets, id) IN
              /\ gained <= 1
              /\ CountId(cli'.added, id) = gained]_vars

\* C15: no document of the links table has both a title and a fetch_error.
C15_TitleExcludesFetchError ==
    \A k \in 1..Len(links) :
        ~(links[k].title # NoValue /\ links[k].fetch_error # NoValue)

\* Both outcomes of a fetch attempt are in the store: one link was given a
\* title, another a fetch_error.
C15_Witness ==
    /\ \E k \in 1..Len(links) : links[k].title # NoValue
    /\ \E k \in 1..Len(links) : links[k].fetch_error # NoValue

\* C16: a step never changes tweet_id, author_username, content or raw_data
\* of a tweets document that has an embedding, and never removes it.
C16_EmbeddedPostFrozen ==
    [][\A k \in 1..Len(tweets) :
          tweets[k].embedding # NoValue =>
              /\ k <= Len(tweets')
              /\ tweets'[k].tweet_id = tweets[k].tweet_id
              /\ tweets'[k].author_username = tweets[k].author_username
              /\ tweets'[k].content = tweets[k].content
              /\ tweets'[k].raw_data = tweets[k].raw_data]_vars

\* C17: generateTweetEmbeddings, the tweet half of processAllEmbeddings,
\* returns whatever the backlog and however the embedding calls fail.
C17_EmbeddingDrainTerminates ==
    (pool.variant = "plimit_embed" /\ pool.pc = "all") ~> (pool.pc = "done")

\* C18: when fetchAllLinkMetadata has returned, every link that its query
\* still selects (no metadata, no fetch_error) was attempted.
C18_ReturnsAfterEmptyPass ==
    (pool.pc = "done" /\ pool.variant \in {"slices", "plimit_meta"})
        => pool.left \subseteq pool.attempted

\* C19: a sync started with ignoreCheckpoint resolves no checkpoint, takes
\* every usable item of the fetched window as a candidate and does not
\* throw at the checkpoint test, with or without strictCheckpoint.
C19_IgnoreCheckpointBypasses ==
    [][(run.pc = "idle" /\ run'.caller = "sync" /\ run'.ignoreCheckpoint)
          => /\ run'.previousLatestTweetId = NoValue
             /\ ~run'.checkpointHit
             /\ TweetIds(run'.tweets) = UsableIds(run'.window)
             /\ run'.pc # "threw"]_vars

\* A strict sync with ignoreCheckpoint runs while the store holds checkpoint
\* 101; the window 101, 100 is taken whole.
C19_Witness ==
    /\ run.caller = "sync"
    /\ run.ignoreCheckpoint
    /\ run.strictCheckpoint
    /\ run.pc = "upsert"
    /\ ResolveCheckpoint(FALSE, sync_state) = "101"
    /\ TweetIds(run.tweets) = <<"101", "100">>

\* C20: no document of the links table resolves (expanded_url when there is
\* one, else url) to a host that is a skip domain or "www." before one.
C20_NoSkipDomainLink ==
    \A k \in 1..Len(links) :
        LET resolved == IF links[k].expanded_url # NoUrl
                        THEN links[k].expanded_url ELSE links[k].url
        IN  \A d \in LINK_SKIP_DOMAINS :
                resolved.host # d /\ resolved.host # <<"www">> \o d

\* backfillLinks has gone over post 102, whose text names www.x.com and whose
\* entity is a t.co link expanding to an article: only the latter is stored.
C20_Witness ==
    /\ \E k \in 1..Len(tweets) :
          tweets[k].tweet_id = "102" /\ tweets[k].links_extracted_at # NoValue
    /\ Len(links) = 1
    /\ links[1].tweet_id = "102"
    /\ links[1].url = UrlShort
    /\ links[1].expanded_url = UrlArticle

-----------------------------------------------------------------------------
(***************************************************************************)
(* The helper functions on their own.                                      *)
(***************************************************************************)

\* An import item of a given shape and content.
Item(format, id, created_at, media, metrics) ==
    [format |-> format, id |-> id, username |-> "alice", text |-> TextOf(id),
     urls |-> IF format \in {"graphql", "both"}
              THEN << [url |-> UrlShort, expanded_url |-> UrlArticle] >>
              ELSE << >>,
     created_at |-> created_at, media |-> media, metrics |-> metrics]

\* The contents the parsers are evaluated on.
Dates == {NoValue, "", DateText, DateGarbage}
Medias == {<< >>, <<"pic.jpg">>}
Metrics == {NoMetrics, [c \in {"likes"} |-> 5], [c \in Counters |-> 1]}
Formats == {"exported", "graphql", "both", "invalid"}
FormatId(format) ==
    CASE format = "exported" -> "100" [] format = "graphql" -> "102"
      [] format = "both" -> "103" [] OTHER -> "109"

\* The batches processTweets is evaluated on.
BatchItems ==
    {Item(f, FormatId(f), d, << >>, m) :
        f \in Formats, d \in {NoValue, DateText, DateGarbage},
        m \in {NoMetrics}}
Batches == UNION {[1..n -> BatchItems] : n \in 0..MaxData}

\* processTweets(data) on an empty table.
ProcessTweetsCall(data) ==
    /\ fn.name = "none"
    /\ fn' = [name |-> "processTweets", arg |-> data,
              result |-> processTweets(<< >>, data)]
    /\ UNCHANGED <<tweets, links, sync_state, twitter_likes, run, cli, call,
                   hist, sb_tweets, sb_links, writer, pool>>

\* The two parsers on the two shapes of one content, and toIsoDate on its
\* created_at.
ParseCall(created_at, media, metrics) ==
    /\ fn.name = "none"
    /\ fn' = [name |-> "parse",
              arg |-> [created_at |-> created_at, media |-> media,
                       metrics |-> metrics],
              result |->
                [exported |-> parseExportedTweet(
                     Item("exported", "100", created_at, media, metrics)),
                 graphql |-> parseGraphQLTweet(
                     Item("graphql", "100", created_at, media, metrics)),
                 sync |-> toIsoDate(created_at)]]
    /\ UNCHANGED <<tweets, links, sync_state, twitter_likes, run, cli, call,
                   hist, sb_tweets, sb_links, writer, pool>>


\* The post text character by character.  The prefix the scan looks for,
\* "https://", is one unit of the text (its first and last characters are
\* URL characters); "a" stands for the URL characters that are never
\* trimmed, ")" and "." for the trimmed ones that are URL characters, "]"
\* for the trimmed one that is not, and the ellipsis is the character U+2026.
Scheme == "https://"
Ellipsis == "U+2026"
Breaks == {"\n", "\r"}
Whitespace == Breaks \cup {" "}
Chars == {Scheme, "a", ")", ".", "]", Ellipsis} \cup Whitespace

MaxChars == 4

CharTexts == UNION {[1..n -> Chars] : n \in 0..MaxChars}

\* isUrlChar: /[A-Za-z0-9\-._~:/?#@!$&'()*+,;=%]/; the character before the
\* first and after the last is "".
isUrlChar(char) == char \in {Scheme, "a", ")", "."}

\* A normalisation that turns every line break into a space.
BreaksToSpaces(text) ==
    [i \in 1..Len(text) |-> IF text[i] \in Breaks THEN " " ELSE text[i]]

\* normalizeUrlText, the loop from index i on.
RECURSIVE NormalizeFrom(_, _, _)
NormalizeFrom(chars, i, output) ==
    IF i > Len(chars) THEN output
    ELSE IF chars[i] \in Breaks
         THEN LET prev == IF i > 1 THEN chars[i - 1] ELSE ""
                  next == IF i < Len(chars) THEN chars[i + 1] ELSE ""
              IN  IF isUrlChar(prev) /\ isUrlChar(next)
                  THEN NormalizeFrom(chars, i + 1, output)
                  ELSE NormalizeFrom(chars, i + 1, Append(output, " "))
         ELSE NormalizeFrom(chars, i + 1, Append(output, chars[i]))

normalizeUrlText(text) == NormalizeFrom(text, 1, << >>)

\* The end of the run of non-whitespace characters that starts at i.
RECURSIVE RunEnd(_, _)
RunEnd(text, i) ==
    IF i < Len(text) /\ text[i + 1] \notin Whitespace
    THEN RunEnd(text, i + 1) ELSE i

\* text.match(/https?:\/\/[^\s]+/g) ?? [], from index i on: the prefix and
\* at least one non-whitespace character after it, up to the next
\* whitespace.
RECURSIVE MatchFrom(_, _, _)
MatchFrom(text, i, found) ==
    IF i > Len(text) THEN found
    ELSE IF text[i] = Scheme /\ i < Len(text) /\ text[i + 1] \notin Whitespace
         THEN LET e == RunEnd(text, i)
              IN  MatchFrom(text, e + 1,
                            Append(found, [k \in 1..(e - i + 1) |-> text[i + k - 1]]))
         ELSE MatchFrom(text, i + 1, found)

contentUrls(text) == MatchFrom(text, 1, << >>)

\* The characters of /[)\].,;!?]+$/ (src/unnamed/part_001 adds the three
\* characters U+00E2, U+20AC and U+00A6, none of them the ellipsis).
TrimChars == {")", "]", "."}

\* trimUrl: url.replace(/[)\].,;!?]+$/g, "").
RECURSIVE trimUrl(_)
trimUrl(url) ==
    IF url # << >> /\ url[Len(url)] \in TrimChars
    THEN trimUrl(SubSeq(url, 1, Len(url) - 1))
    ELSE url

\* The loop over contentUrls with no entities: trimmed, the empty ones and
\* the ones already pushed left out.
RECURSIVE CleanInto(_, _)
CleanInto(found, urls) ==
    IF found = << >> THEN urls
    ELSE LET cleaned == trimUrl(Head(found))
         IN  IF cleaned = << >> \/ \E k \in 1..Len(urls) : urls[k] = cleaned
             THEN CleanInto(Tail(found), urls)
             ELSE CleanInto(Tail(found), Append(urls, cleaned))

\* The text scan of extractUrlsFromTweet / extractUrlsFromTweetDoc.
ScanTextCall(text) ==
    /\ fn.name = "none"
    /\ fn' = [name |-> "scanText", arg |-> text,
              result |-> [normalized |-> normalizeUrlText(text),
                          urls |-> CleanInto(contentUrls(normalizeUrlText(text)),
                                             << >>)]]
    /\ UNCHANGED <<tweets, links, sync_state, twitter_likes, run, cli, call,
                   hist, sb_tweets, sb_links, writer, pool>>


\* A captured title or description by its make-up: whitespace in front, the
\* text proper, whitespace behind, each by its number of characters.
TitleCap == 500
DescriptionCap == 2000

CapturedTexts ==
    {[lead |-> l, body |-> b, trail |-> t] :
        l \in {0, 2}, b \in {1, 499, 501, 1999, 2001}, t \in {0, 2}}

Length(text) == text.lead + text.body + text.trail

\* text.slice(0, n): the first n characters.
slice(text, n) ==
    LET lead == Min(text.lead, n)
        body == Min(text.body, n - lead)
    IN  [lead |-> lead, body |-> body,
         trail |-> Min(text.trail, n - lead - body)]

\* text.trim()
trim(text) == [lead |-> 0, body |-> text.body, trail |-> 0]

\* The return of fetchLinkMetadata for a captured text: title and description
\* of the Convex action, and of the cheerio fetcher of src/src/process/links.ts.
StoredTextCall(text) ==
    /\ fn.name = "none"
    /\ fn' = [name |-> "storedText", arg |-> text,
              result |-> [title |-> slice(text, TitleCap),
                          description |-> slice(text, DescriptionCap),
                          cheerioTitle |-> slice(trim(text), TitleCap),
                          cheerioDescription |-> slice(trim(text), DescriptionCap)]]
    /\ UNCHANGED <<tweets, links, sync_state, twitter_likes, run, cli, call,
                   hist, sb_tweets, sb_links, writer, pool>>


\* ---- The links table of the Supabase store, one row at a time ----

\* link.<field> of a Link object: undefined when the object has no such key.
Optional(link, field) == IF field \in DOMAIN link THEN link[field] ELSE NoValue

\* Rows of the links table for the pair (100, t.co/x): metadata, fetch error
\* and embedding each stored or null.
StoredLinkRows ==
    [tweet_id : {"100"}, url : {UrlShort}, expanded_url : {NoUrl, UrlArticle},
     title : {NoValue, "Title"}, description : {NoValue, "Description"},
     og_image : {NoValue, "image"}, fetch_error : {NoValue, "HTTP 404"},
     embedding : {NoValue, "vector"}]

\* The Link objects extractLinksFromTweets builds for that pair.
ExtractedLinks ==
    [tweet_id : {"100"}, url : {UrlShort}, expanded_url : {NoUrl, UrlArticle}]

\* supabase.from("links").update({...}).eq("id", existing.id) of upsertLinks:
\* the six columns it writes, each  link.<field> ?? null.
updateExistingLink(row, link) ==
    [row EXCEPT !.expanded_url = link.expanded_url,
                !.title = Optional(link, "title"),
                !.description = Optional(link, "description"),
                !.og_image = Optional(link, "og_image")]

\* ctx.db.patch(existing._id, payload) of the Convex mutation upsertLinks:
\* payload carries id, tweet_id, url, expanded_url, display_url and domain.
patchExistingLink(row, link) ==
    [row EXCEPT !.expanded_url = link.expanded_url]

\* upsertLinks([link]) when the row of link's pair exists, in both stores.
UpsertExistingLinkCall(row, link) ==
    /\ fn.name = "none"
    /\ row.tweet_id = link.tweet_id /\ row.url = link.url
    /\ fn' = [name |-> "upsertExistingLink", arg |-> [row |-> row, link |-> link],
              result |-> [supabase |-> updateExistingLink(row, link),
                          convex |-> patchExistingLink(row, link)]]
    /\ UNCHANGED <<tweets, links, sync_state, twitter_likes, run, cli, call,
                   hist, sb_tweets, sb_links, writer, pool>>


\* ---- One metadata fetch attempt on a row of the Supabase links table ----

\* Rows the links-missing-metadata query of the Supabase store can return:
\* title and fetch_error null, fetched_at null or left by an earlier attempt.
PendingLinkRows ==
    [title : {NoValue}, description : {NoValue}, fetch_error : {NoValue},
     fetched_at : {NoValue, "earlier"}]

\* How a fetch attempt ends: a page with a title; a target that yields only
\* a domain or content type (skip-listed, not HTML, a page without title);
\* a failed request.
Attempts ==
    {[kind |-> k, description |-> d] :
        k \in {"titled", "untitled", "failed"}, d \in {NoValue, "Description"}}

\* What fetchLinkMetadata of src/src/process/links.ts (first variant) hands
\* to updateLinkMetadata: {title, description, og_image}, or the fetch error
\* when it returned null.
metadataOf(attempt) ==
    IF attempt.kind = "failed"
    THEN [title |-> NoValue, description |-> NoValue,
          fetch_error |-> "Failed to fetch metadata"]
    ELSE [title |-> IF attempt.kind = "titled" THEN "Title" ELSE NoValue,
          description |-> attempt.description, fetch_error |-> NoValue]

\* updateLinkMetadata of utils/supabase.ts: title, description, og_image and
\* fetch_error each  metadata.<field> ?? null, and fetched_at.
sbUpdateLinkMetadata(row, metadata) ==
    [row EXCEPT !.title = metadata.title,
                !.description = metadata.description,
                !.fetch_error = metadata.fetch_error,
                !.fetched_at = "now"]

\* getLinksWithoutMetadata of utils/supabase.ts:
\* .is("title", null).is("fetch_error", null)
sbLinksWithoutMetadata(row) == row.title = NoValue /\ row.fetch_error = NoValue

\* The edge function's step: its fetchLinkMetadata returns {} on any error
\* and {domain} or {title, description, domain} otherwise; the update writes
\* title, description, domain and fetched_at, keys that are undefined being
\* left out of the request.
edgeUpdateLink(row, attempt) ==
    [row EXCEPT !.title = IF attempt.kind = "titled" THEN "Title" ELSE @,
                !.description = IF attempt.kind = "failed"
                                  \/ attempt.description = NoValue
                                THEN @ ELSE attempt.description,
                !.fetched_at = "now"]

\* A fetch attempt on a pending row completes and the row is stored; then
\* the links-missing-metadata query is evaluated on it.
FetchAttemptCall(row, attempt) ==
    /\ fn.name = "none"
    /\ LET cliRow == sbUpdateLinkMetadata(row, metadataOf(attempt))
           edgeRow == edgeUpdateLink(row, attempt)
       IN  fn' = [name |-> "fetchAttempt", arg |-> [row |-> row, attempt |-> attempt],
                  result |-> [cli |-> [row |-> cliRow,
                                       selected |-> sbLinksWithoutMetadata(cliRow)],
                              edge |-> [row |-> edgeRow,
                                        selected |-> sbLinksWithoutMetadata(edgeRow)]]]
    /\ UNCHANGED <<tweets, links, sync_state, twitter_likes, run, cli, call,
                   hist, sb_tweets, sb_links, writer, pool>>


NextFn ==
    \/ \E url \in FetchUrls : \E net \in FetchNets(url) : FetchLinkMetadataCall(url, net)
    \/ \E raw_data \in EntityLists, content \in Texts : ExtractUrlsCall(raw_data, content)
    \/ \E data \in Batches : ProcessTweetsCall(data)
    \/ \E created_at \in Dates, media \in Medias, metrics \in Metrics :
          ParseCall(created_at, media, metrics)
    \/ \E text \in CharTexts : ScanTextCall(text)
    \/ \E text \in CapturedTexts : StoredTextCall(text)
    \/ \E row \in StoredLinkRows, link \in ExtractedLinks : UpsertExistingLinkCall(row, link)
    \/ \E row \in PendingLinkRows, attempt \in Attempts : FetchAttemptCall(row, attempt)
    \/ FnReturns

SpecFn == Init /\ [][NextFn]_vars

\* The link document after the pipeline stored what the call returned.
Recorded(url, metadata) ==
    updateLinkMetadata(LinkDoc([tweet_id |-> "100", url |-> url,
                                expanded_url |-> NoUrl, domain |-> NoDomain]),
                       MetadataArgs(metadata))

\* The call was for a short link whose HEAD ended on a skip-listed domain.
ExpandsToSkipDomain ==
    /\ fn.name = "fetchLinkMetadata"
    /\ IsShort(fn.arg.url)
    /\ fn.arg.net.kind # "head_error"
    /\ fn.arg.net.redirect.host # << >>
    /\ \E d \in LINK_SKIP_DOMAINS :
          fn.arg.net.redirect.host \in {d, <<"www">> \o d}

\* C21: for a short link that expands to a skip-listed domain the call
\* issues the HEAD only, and the link is stored with its domain and without
\* title, description and content type.
C21_SkipDomainNotFetched ==
    ExpandsToSkipDomain =>
        /\ fn.result.requests = <<"HEAD">>
        /\ LET doc == Recorded(fn.arg.url, fn.result) IN
           /\ doc.domain # NoDomain
           /\ doc.domain \in LINK_SKIP_DOMAINS
           /\ doc.title = NoValue
           /\ doc.description = NoValue
           /\ doc.content_type = NoValue
           /\ doc.fetch_error = NoValue

\* t.co/x expands to www.x.com/s while the network would answer a GET with
\* a page that carries every tag.
C21_Witness ==
    /\ ExpandsToSkipDomain
    /\ fn.arg.net.redirect = UrlStatus
    /\ fn.arg.net.kind = "html"
    /\ fn.arg.net.page.ogTitle # NoValue
    /\ fn.result.domain = <<"x", "com">>

\* The URLs a list of url entities names, raw or expanded.
EntityForms(ents) ==
    {ents[k].url : k \in 1..Len(ents)} \cup {ents[k].expanded_url : k \in 1..Len(ents)}

\* C22: extractUrlsFromTweet returns the entities followed by the scanned
\* URLs that are no raw or expanded form of an entity, each once and every
\* one of them; a post whose text names the article twice and whose one
\* entity names it too leaves exactly one link.
C22_ScannedUrlNotAddedAgain ==
    fn.name = "extractUrlsFromTweet" =>
        LET ents == UrlEntities(fn.arg.raw_data)
            urls == fn.result.urls
            added == SubSeq(urls, Len(ents) + 1, Len(urls))
        IN  /\ SubSeq(urls, 1, Len(ents)) = ents
            /\ \A k \in 1..Len(added) :
                  /\ added[k].url \notin EntityForms(ents)
                  /\ added[k].expanded_url = NoUrl
                  /\ \A m \in 1..Len(added) : added[m].url = added[k].url => m = k
            /\ \A u \in Range(ScanUrls(fn.arg.content)) :
                  u \in EntityForms(ents) \cup {added[k].url : k \in 1..Len(added)}
            /\ (/\ Len(ents) = 1
                /\ fn.arg.content \in {<<UrlArticle, UrlArticle>>,
                                       <<UrlArticle, Word("see"), UrlArticle>>})
                   => Len(fn.result.rows) = 1

\* The article is named twice in the text and once, as the expanded form,
\* in the entities: one link.
C22_Witness ==
    /\ fn.name = "extractUrlsFromTweet"
    /\ fn.arg.raw_data = <<EntityShort>>
    /\ fn.arg.content = <<UrlArticle, Word("see"), UrlArticle>>
    /\ Len(fn.result.urls) = 1
    /\ Len(fn.result.rows) = 1

\* C23: processTweets tries parseExportedTweet first and parseGraphQLTweet
\* only when the first returns null: an item both schemas accept comes out as
\* the exported parser builds it (no raw_data).  An item neither schema
\* accepts is counted as skipped and is not in the table afterwards, and the
\* other items of the batch (of a known shape, with a date that parses) are
\* in the table afterwards: the call returns a result for every batch.
C23_UnmatchedItemSkipped ==
    fn.name = "processTweets" =>
        LET data == fn.arg
            r == fn.result
            InTable(id) == \E k \in 1..Len(r.table) : r.table[k].tweet_id = id
            unmatched == {i \in 1..Len(data) : data[i].format = "invalid"}
        IN  /\ r.skipped >= Cardinality(unmatched)
            /\ \A i \in unmatched :
                  /\ ~InTable(data[i].id)
                  /\ \A k \in 1..Len(r.added) : r.added[k].tweet_id # data[i].id
            /\ \A i \in 1..Len(data) :
                  (data[i].format # "invalid" /\ data[i].created_at # DateGarbage)
                      => InTable(data[i].id)
            /\ \A k \in 1..Len(r.added) :
                  r.added[k].tweet_id = FormatId("both")
                      => r.added[k].raw_data = << >>

\* A batch whose first item matches neither schema and whose second matches
\* both: the first is skipped, the second is added.
C23_Witness ==
    /\ fn.name = "processTweets"
    /\ Len(fn.arg) = 2
    /\ fn.arg[1].format = "invalid"
    /\ fn.arg[2].format = "both"
    /\ fn.result.skipped = 1
    /\ Len(fn.result.added) = 1
    /\ fn.result.added[1].tweet_id = FormatId("both")

\* C24: an item of a known shape whose created_at does not parse as a date
\* is still parsed into a tweet, with created_at absent, by
\* parseExportedTweet and by parseGraphQLTweet.
C24_UnparseableDateAbsent ==
    (fn.name = "parse" /\ fn.arg.created_at = DateGarbage) =>
        /\ fn.result.exported # << >>
        /\ fn.result.exported[1].created_at = NoValue
        /\ fn.result.graphql # << >>
        /\ fn.result.graphql[1].created_at = NoValue

\* C25: for one content, parseExportedTweet on the exported shape and
\* parseGraphQLTweet on the GraphQL shape return tweets equal in every field
\* but raw_data, whether or not the content gives the counters.
C25_ShapesParseEqual ==
    (fn.name = "parse" /\ fn.result.exported # << >>
                       /\ fn.result.graphql # << >>) =>
        LET e == fn.result.exported[1]
            g == fn.result.graphql[1]
        IN  /\ e.tweet_id = g.tweet_id
            /\ e.author_username = g.author_username
            /\ e.content = g.content
            /\ e.created_at = g.created_at
            /\ e.media_urls = g.media_urls
            /\ DOMAIN e.metrics = DOMAIN g.metrics
            /\ \A c \in DOMAIN e.metrics : e.metrics[c] = g.metrics[c]

\* C26: normalizeUrlText drops a line break exactly when the character
\* before it and the character after it are URL characters, turns every
\* other line break into one space and keeps all other characters in order.
\* The text "https://a", newline, "a" gives the one URL https://aa, and
\* ".", newline, "https://a" gives https://a.
C26_BreakInsideUrlRemoved ==
    fn.name = "scanText" =>
        LET text == fn.arg
            n == fn.result.normalized
            dropped == {i \in 1..Len(text) :
                          /\ text[i] \in Breaks
                          /\ 1 < i /\ i < Len(text)
                          /\ isUrlChar(text[i - 1]) /\ isUrlChar(text[i + 1])}
            kept == (1..Len(text)) \ dropped
        IN  /\ Len(n) = Cardinality(kept)
            /\ \A i \in kept :
                  n[Cardinality({j \in kept : j <= i})] =
                      IF text[i] \in Breaks THEN " " ELSE text[i]
            /\ text = <<Scheme, "a", "\n", "a">>
                  => fn.result.urls = << <<Scheme, "a", "a">> >>
            /\ text = <<".", "\n", Scheme, "a">>
                  => fn.result.urls = << <<Scheme, "a">> >>

\* The URL wrapped across a line break comes out whole.
C26_Witness ==
    /\ fn.name = "scanText"
    /\ fn.arg = <<Scheme, "a", "\n", "a">>
    /\ fn.result.normalized = <<Scheme, "a", "a">>
    /\ fn.result.urls = << <<Scheme, "a", "a">> >>

\* C27: a URL the text scan produces does not end in a closing bracket, a
\* period (nor comma, semicolon, exclamation or question mark) or an
\* ellipsis: the whole trailing run is removed.
C27_NoTrailingPunctuation ==
    fn.name = "scanText" =>
        \A k \in 1..Len(fn.result.urls) :
            LET url == fn.result.urls[k]
            IN  url[Len(url)] \notin {")", "]", ".", Ellipsis}

C29_HungFetchRunRecords == (run.pc = "awaiting") ~> (run.pc = "record")

\* C30: from an HTML page fetchLinkMetadata takes the title from og:title,
\* else twitter:title, else the title element, and the description from
\* og:description, else twitter:description, else the description meta tag.
C30_CardDescriptionBeforeGeneric ==
    (fn.name = "fetchLinkMetadata" /\ fn.result.contentType = "text/html") =>
        LET html == fn.arg.net.page IN
        /\ fn.result.title =
              IF html.ogTitle # NoValue THEN html.ogTitle
              ELSE IF html.twitterTitle # NoValue THEN html.twitterTitle
              ELSE html.titleElement
        /\ fn.result.description = CardBeforeMeta(html)

\* C31: whatever the batch and the store, processTweets returns added and
\* skipped with Len(added) + skipped = the number of items of the batch: an
\* item is added, or skipped because its post is stored already, or skipped
\* because no parser accepts it.
C31_AddedPlusSkippedIsBatch ==
    cli.pc # "idle" =>
        /\ cli.addedCount + cli.skipped = Len(cli.data)
        /\ cli.skipped >=
              Cardinality({k \in 1..Len(cli.data) : cli.data[k].format = "invalid"})

\* An import of one post that is stored already and one that is new: one
\* added, one skipped.
C31_Witness ==
    /\ cli.pc # "idle"
    /\ cli.hasPrev
    /\ Len(cli.data) = 2
    /\ cli.rowsBefore = 1
    /\ Len(tweets) = 2
    /\ cli.addedCount = 1
    /\ cli.skipped = 1

\* C32: the title fetchLinkMetadata returns for storage is trimmed and at
\* most 500 characters long, and the description is trimmed and at most 2000
\* characters long, whatever the page gave.
C32_StoredTextTrimmedCapped ==
    fn.name = "storedText" =>
        /\ fn.result.title.lead = 0 /\ fn.result.title.trail = 0
        /\ Length(fn.result.title) <= 500
        /\ fn.result.description.lead = 0 /\ fn.result.description.trail = 0
        /\ Length(fn.result.description) <= 2000

\* C33: once a sync_state with a checkpoint identifier has been recorded,
\* the checkpoint an incremental run (no ignoreCheckpoint) resolves from the
\* latest sync_state is defined, whatever was recorded after it.
C33_CheckpointSurvivesLaterRuns ==
    (\E k \in 1..Len(sync_state) : sync_state[k].latest_tweet_id # NoValue)
        => ResolveCheckpoint(FALSE, sync_state) # NoValue

\* C34: a sync run takes the id of the first item of the fetched window as
\* its newest id, whether or not the scan hits the previous checkpoint, and
\* the sync_state it records carries that id; when the first item is the
\* previous checkpoint, the recorded checkpoint is the previous one and the
\* run upserted nothing.
C34_RecordsNewestOfWindow ==
    /\ [][(run.pc = "idle" /\ run'.caller = "sync" /\ run'.window # << >>)
            => run'.latestTweetId = run'.window[1].id]_vars
    /\ [][(run.pc = "record" /\ run.caller = "sync" /\ sync_state' # sync_state)
            => /\ sync_state'[Len(sync_state')].latest_tweet_id = run.latestTweetId
               /\ (run.previousLatestTweetId # NoValue
                      /\ run.latestTweetId = run.previousLatestTweetId)
                    => /\ sync_state'[Len(sync_state')].latest_tweet_id
                            = sync_state[Len(sync_state)].latest_tweet_id
                       /\ run.tweetsAdded = 0
                       /\ run.tweetsUpdated = 0]_vars

\* A sync hit its checkpoint behind one new item and recorded the new item's
\* id as the checkpoint.
C34_Witness ==
    /\ run.caller = "sync"
    /\ run.pc = "returned"
    /\ run.previousLatestTweetId = "100"
    /\ run.latestTweetId = "101"
    /\ run.checkpointHit
    /\ run.tweetsAdded = 1
    /\ Len(sync_state) = 2
    /\ sync_state[1].latest_tweet_id = "100"
    /\ sync_state[2].latest_tweet_id = "101"

\* C35: the link extraction step of a sync run leaves every post the run
\* added with its links_extracted_at set and with a link for each of its
\* URLs that is not on a skip domain, however many posts the run added.
C35_AddedPostsExtracted ==
    [][(run.caller = "sync" /\ run.pc = "backfill")
          => \A id \in Range(run.added) :
                \A k \in 1..Len(tweets') :
                    tweets'[k].tweet_id = id
                        => /\ tweets'[k].links_extracted_at # NoValue
                           /\ \A u \in Range(extractUrlsFromTweetDoc(tweets'[k])) :
                                 LET domain == extractDomain(
                                         IF u.expanded_url # NoUrl
                                         THEN u.expanded_url ELSE u.url)
                                 IN  domain \notin LINK_SKIP_DOMAINS
                                       => \E j \in 1..Len(links') :
                                             /\ links'[j].tweet_id = id
                                             /\ links'[j].url = u.url]_vars

\* C36: upserting a link whose (post id, raw URL) pair is already stored
\* leaves the stored title, description, preview image, fetch error and
\* embedding as they were.
C36_UpsertKeepsMetadata ==
    fn.name = "upsertExistingLink" =>
        /\ fn.result.supabase.title = fn.arg.row.title
        /\ fn.result.supabase.description = fn.arg.row.description
        /\ fn.result.supabase.og_image = fn.arg.row.og_image
        /\ fn.result.supabase.fetch_error = fn.arg.row.fetch_error
        /\ fn.result.supabase.embedding = fn.arg.row.embedding

\* C37: a link on which a metadata fetch attempt has completed, with a
\* title, with only a domain or content type, or with a fetch error, is not
\* selected again by the links-missing-metadata query.
C37_AttemptedNotSelectedAgain ==
    fn.name = "fetchAttempt" =>
        /\ ~fn.result.cli.selected
        /\ ~fn.result.edge.selected

\* C38: a call of embedTexts issues at most 5 HTTP requests whatever the
\* answers are, and when the 5th attempt fails the call throws at once,
\* with no sleep after it: 4 sleeps in all.
C38_AtMostFiveRequests ==
    /\ [](call.requests <= 5 /\ call.sleeps <= 4)
    /\ [](call.requests = 5 /\ ~(call.lastStatus \in 200..299)
            => call.pc = "threw" /\ call.sleeps = 4)
    /\ [][call.requests = 5 => call'.requests \in {0, 5} /\ call'.sleeps \in {0, 4}]_vars

\* Five answers of 503: the fifth request was made after four sleeps and
\* the call has thrown.
C38_Witness ==
    /\ call.pc = "threw"
    /\ call.requests = 5
    /\ call.sleeps = 4
    /\ call.lastStatus = 503

\* The store resolves no checkpoint: no sync_state document yet, or a latest
\* one without latest_tweet_id.
NoPriorCheckpoint ==
    \/ sync_state = << >>
    \/ sync_state[Len(sync_state)].latest_tweet_id = NoValue

\* C39: a sync started with strictCheckpoint (and without ignoreCheckpoint)
\* while no prior checkpoint can be resolved does not throw at the
\* checkpoint test; the scan meets no checkpoint and every usable item of
\* the fetched window becomes a candidate.
C39_StrictWithoutCheckpointRuns ==
    [][(/\ run.pc = "idle" /\ NoPriorCheckpoint
        /\ run'.caller = "sync" /\ run'.strictCheckpoint /\ ~run'.ignoreCheckpoint)
          => /\ run'.previousLatestTweetId = NoValue
             /\ ~run'.checkpointHit
             /\ TweetIds(run'.tweets) = UsableIds(run'.window)
             /\ run'.pc # "threw"]_vars

\* A strict sync runs after a run that recorded no checkpoint: its window of
\* two items is taken whole and the run goes on to the upsert.
C39_Witness ==
    /\ run.caller = "sync"
    /\ run.strictCheckpoint
    /\ ~run.ignoreCheckpoint
    /\ run.pc = "upsert"
    /\ Len(sync_state) = 1
    /\ sync_state[1].latest_tweet_id = NoValue
    /\ run.previousLatestTweetId = NoValue
    /\ Len(run.tweets) = 2

====
